---- MODULE Spec2Model ----
(***************************************************************************)
(* Model of the DataTables-Gin request processor (package datatables):     *)
(* column-name validation, ParseParams, and the OfReturn query pipeline.   *)
(*                                                                         *)
(* Go strings are modelled as sequences of characters; a character is a    *)
(* one-element TLA+ string ("a", ";", ...) or a named atom for characters  *)
(* that cannot be written in the module text ("LF" = line feed,            *)
(* "U+00E9" = e with acute accent).                                        *)
(***************************************************************************)
EXTENDS Integers, Sequences, FiniteSets, TLC

VARIABLES
    vcall,      \* SpecValid: the last validation call [op, arg, ret]
    pcall,      \* SpecParse: the last ParseParams call [req, ret]
    ocall,      \* SpecOptions: the last applyOptions call [data, opts, start, ret]
    conc,       \* SpecShared: requests running applyOptions on shared options
    ccall,      \* SpecConvert: the last converter call [op, arg, ret]
    bcall,      \* SpecBuild: a chain of Options builder calls and the maps it made
    base,       \* OfReturn argument: the caller's base query
    pc,         \* OfReturn: position of the request in the pipeline
    searchable, \* OfReturn argument: []string
    orderable,  \* OfReturn argument: map[string]string
    opts,       \* OfReturn argument: Options
    req,        \* the query parameters of the gin.Context
    params,     \* dto.Params produced by ParseParams
    total,      \* local variable total
    filtered,   \* local variable filtered
    fquery,     \* filteredQuery: the builder calls chained on it so far
    dbops,      \* database operations issued so far (history)
    steps,      \* pipeline steps performed so far (history)
    dest,       \* *dest, the destination slice
    rows,       \* local variable rows
    ret         \* what OfReturn returned: [res, err]

vars == <<vcall, pcall, ocall, conc, ccall, bcall, base, pc, searchable, orderable, opts, req, params, total,
          filtered, fquery, dbops, steps, dest, rows, ret>>

pipeVars == <<base, pc, searchable, orderable, opts, req, params, total,
              filtered, fquery, dbops, steps, dest, rows, ret>>

(***************************************************************************)
(* Characters and strings                                                  *)
(***************************************************************************)
LowerSeq == <<"a","b","c","d","e","f","g","h","i","j","k","l","m",
              "n","o","p","q","r","s","t","u","v","w","x","y","z">>
UpperSeq == <<"A","B","C","D","E","F","G","H","I","J","K","L","M",
              "N","O","P","Q","R","S","T","U","V","W","X","Y","Z">>
DigitSeq == <<"0","1","2","3","4","5","6","7","8","9">>

Range(s) == { s[i] : i \in DOMAIN s }

BoundedSeq(S, n) == UNION { [1..k -> S] : k \in 0..n }

(***************************************************************************)
(* validation.go                                                           *)
(***************************************************************************)
\* the character class [a-zA-Z0-9_.] of columnNamePattern
PatternClass == Range(LowerSeq) \cup Range(UpperSeq) \cup Range(DigitSeq) \cup {"_", "."}

\* ^[...]+$ : from position i, one or more class characters and then the
\* end of the text (Go's $ without the m flag matches only at the end).
\* the pattern without its closing anchor: ^[...]+ matches a valid prefix
MatchPlusToEnd_Unanchored(s, i) ==
    /\ i <= Len(s)
    /\ s[i] \in PatternClass

RECURSIVE MatchPlusToEnd(_, _)
MatchPlusToEnd(s, i) ==
    /\ i <= Len(s)
    /\ s[i] \in PatternClass
    /\ (i = Len(s) \/ MatchPlusToEnd(s, i + 1))

columnNamePattern(s) == MatchPlusToEnd(s, 1)

isValidColumnName(name) ==
    IF name = <<>> THEN FALSE ELSE columnNamePattern(name)

Nil == [kind |-> "nil"]

NoCall == [op |-> "none", done |-> FALSE]

ValidationError(field, message) ==
    [kind |-> "ValidationError", Field |-> field, Message |-> message]

\* for _, col := range columns: the first invalid column is reported
RECURSIVE validateSearchableFrom(_, _)
validateSearchableFrom(columns, i) ==
    IF i > Len(columns) THEN Nil
    ELSE IF ~isValidColumnName(columns[i])
         THEN ValidationError(columns[i], "searchable column name contains invalid characters")
         ELSE validateSearchableFrom(columns, i + 1)

validateSearchableColumns(columns) == validateSearchableFrom(columns, 1)

\* the orders in which a range over a Go map may visit its keys
KeyOrders(m) ==
    { o \in [1..Cardinality(DOMAIN m) -> DOMAIN m] : Range(o) = DOMAIN m }

\* the loop checking the keys only
RECURSIVE validateOrderableAlong_KeysOnly(_, _, _)
validateOrderableAlong_KeysOnly(columns, order, i) ==
    IF i > Len(order) THEN Nil
    ELSE IF ~isValidColumnName(order[i])
         THEN ValidationError(order[i], "orderable column key contains invalid characters")
         ELSE validateOrderableAlong_KeysOnly(columns, order, i + 1)

\* for key, val := range columns, along one iteration order
RECURSIVE validateOrderableAlong(_, _, _)
validateOrderableAlong(columns, order, i) ==
    IF i > Len(order) THEN Nil
    ELSE IF ~isValidColumnName(order[i])
         THEN ValidationError(order[i], "orderable column key contains invalid characters")
         ELSE IF ~isValidColumnName(columns[order[i]])
              THEN ValidationError(columns[order[i]], "orderable column value contains invalid characters")
              ELSE validateOrderableAlong(columns, order, i + 1)

\* the values validateOrderableColumns may return (map iteration order is
\* unspecified in Go)
validateOrderableColumns(columns) ==
    { validateOrderableAlong(columns, o, 1) : o \in KeyOrders(columns) }

(***************************************************************************)
(* strconv and strings, as ParseParams uses them                           *)
(***************************************************************************)
\* width of the Go int in bits, scaled down from 64 so that an
\* out-of-range decimal needs only a few digits
IntBits == 16

UintMax == 2^IntBits - 1
IntCutoff == 2^(IntBits - 1)

DigitVal(ch) == CHOOSE k \in 0..9 : DigitSeq[k + 1] = ch

\* strconv.ParseUint(s, 10, bits), the digit loop: a non-digit is a syntax
\* error (value 0), an overflow a range error (value: the largest unsigned)
RECURSIVE ParseUintFrom(_, _, _)
ParseUintFrom(s, i, n) ==
    IF i > Len(s) THEN [val |-> n, err |-> "nil"]
    ELSE IF s[i] \notin Range(DigitSeq) THEN [val |-> 0, err |-> "syntax"]
    ELSE IF n * 10 + DigitVal(s[i]) > UintMax THEN [val |-> UintMax, err |-> "range"]
    ELSE ParseUintFrom(s, i + 1, n * 10 + DigitVal(s[i]))

ParseUint(s) ==
    IF s = <<>> THEN [val |-> 0, err |-> "syntax"] ELSE ParseUintFrom(s, 1, 0)

\* strconv.ParseInt(s, 10, bits)
ParseInt(s) ==
    IF s = <<>> THEN [val |-> 0, err |-> "syntax"]
    ELSE LET neg  == Head(s) = "-"
             body == IF Head(s) \in {"+", "-"} THEN Tail(s) ELSE s
             u    == ParseUint(body)
         IN IF u.err = "syntax" THEN [val |-> 0, err |-> "syntax"]
            ELSE IF ~neg /\ u.val >= IntCutoff THEN [val |-> IntCutoff - 1, err |-> "range"]
            ELSE IF neg /\ u.val > IntCutoff THEN [val |-> -IntCutoff, err |-> "range"]
            ELSE [val |-> IF neg THEN -u.val ELSE u.val, err |-> "nil"]

\* strconv.Atoi(s): ParseInt(s, 10, 0); ParseParams drops the error
Atoi(s) == ParseInt(s).val

ToLowerChar(ch) ==
    IF ch \in Range(UpperSeq)
    THEN LowerSeq[CHOOSE k \in 1..26 : UpperSeq[k] = ch]
    ELSE ch

\* strings.ToLower on the characters of the model
ToLower(s) == [i \in 1..Len(s) |-> ToLowerChar(s[i])]

(***************************************************************************)
(* parser.go                                                               *)
(***************************************************************************)
\* the query string of a request: a function from the keys present to their
\* (first) value.  A key is the sequence of its pieces.
Key(name) == <<name>>
ColumnsDataKey(index) == <<"columns[">> \o index \o <<"][data]">>

\* c.DefaultQuery(key, defaultValue)
DefaultQuery(c, key, defaultValue) ==
    IF key \in DOMAIN c THEN c[key] ELSE defaultValue

MaxPageSize == 500

\* the order key without the columns[..][data] fallback
ParseOrder_NoFallback(c) == DefaultQuery(c, Key("order[0][column]"), <<>>)

\* the order key of ParseParams (parser.go 35-45)
ParseOrder(c) ==
    LET orderColumn == DefaultQuery(c, Key("order[0][column]"), <<>>)
    IN IF orderColumn # <<>> THEN orderColumn
       ELSE LET columnIndex == DefaultQuery(c, Key("order[0][column]"), <<"0">>)
            IN DefaultQuery(c, ColumnsDataKey(columnIndex), <<>>)

\* the direction compared without lower-casing
ParseDir_NoLower(c) ==
    LET dir == DefaultQuery(c, Key("order[0][dir]"), <<"a", "s", "c">>)
    IN IF dir # <<"a", "s", "c">> /\ dir # <<"d", "e", "s", "c">>
       THEN <<"a", "s", "c">> ELSE dir

\* the direction of ParseParams (parser.go 48-51)
ParseDir(c) ==
    LET dir == ToLower(DefaultQuery(c, Key("order[0][dir]"), <<"a", "s", "c">>))
    IN IF dir # <<"a", "s", "c">> /\ dir # <<"d", "e", "s", "c">>
       THEN <<"a", "s", "c">> ELSE dir

\* the page-size cap without the test against the maximum
CapLength_NoCap(length) == length

\* the page-size cap of ParseParams (parser.go 55-57)
CapLength(length) ==
    IF length > MaxPageSize /\ length # -1 THEN MaxPageSize ELSE length

ParseParams(c) ==
    [Draw   |-> ParseInt(DefaultQuery(c, Key("draw"), <<"1">>)).val,
     Start  |-> Atoi(DefaultQuery(c, Key("start"), <<"0">>)),
     Length |-> CapLength(Atoi(DefaultQuery(c, Key("length"), <<"1", "0">>))),
     Search |-> DefaultQuery(c, Key("search[value]"), <<>>),
     Order  |-> ParseOrder(c),
     Dir    |-> ParseDir(c)]

(***************************************************************************)
(* processor.go: the query text OfReturn builds                            *)
(*                                                                         *)
(* Query text is a sequence whose elements are the characters of the       *)
(* identifiers concatenated into it and the pieces of fixed template text  *)
(* ("LOWER(", ") LIKE LOWER(?)", " "), each piece one element.             *)
(***************************************************************************)
\* "LOWER("+col+") LIKE LOWER(?)"
SearchClause(col) == <<"LOWER(">> \o col \o <<") LIKE LOWER(?)">>

\* "%" + searchValue + "%"
SearchPattern(searchValue) == <<"%">> \o searchValue \o <<"%">>

\* the loop of applySearch from index i (0-based in the code, 1-based here)
RECURSIVE applySearchFrom(_, _, _, _)
applySearchFrom(query, cols, searchValue, i) ==
    IF i > Len(cols) THEN query
    ELSE applySearchFrom(
            Append(query, [op   |-> IF i = 1 THEN "Where" ELSE "Or",
                           text |-> SearchClause(cols[i]),
                           args |-> <<SearchPattern(searchValue)>>]),
            cols, searchValue, i + 1)

applySearch(query, cols, searchValue) == applySearchFrom(query, cols, searchValue, 1)

\* applyOrdering concatenating the request's order key itself
applyOrdering_RawKey(query, p, ordmap, defaultOrder) ==
    IF p.Order # <<>>
    THEN Append(query, [op |-> "Order", text |-> p.Order \o <<" ">> \o p.Dir])
    ELSE IF defaultOrder # <<>>
         THEN Append(query, [op |-> "Order", text |-> defaultOrder])
         ELSE query

\* applyOrdering adding the default order after a resolved order key as well
applyOrdering_Both(query, p, ordmap, defaultOrder) ==
    LET q1 == IF p.Order # <<>> /\ p.Order \in DOMAIN ordmap
              THEN Append(query, [op |-> "Order", text |-> ordmap[p.Order] \o <<" ">> \o p.Dir])
              ELSE query
    IN IF defaultOrder # <<>>
       THEN Append(q1, [op |-> "Order", text |-> defaultOrder])
       ELSE q1

applyOrdering(query, p, ordmap, defaultOrder) ==
    IF p.Order # <<>> /\ p.Order \in DOMAIN ordmap
    THEN Append(query, [op |-> "Order", text |-> ordmap[p.Order] \o <<" ">> \o p.Dir])
    ELSE IF defaultOrder # <<>>
         THEN Append(query, [op |-> "Order", text |-> defaultOrder])
         ELSE query

\* processor.go 79-81
applyPagination(query, p) ==
    IF p.Length > 0
    THEN query \o <<[op |-> "Offset", n |-> p.Start], [op |-> "Limit", n |-> p.Length]>>
    ELSE query

(***************************************************************************)
(* The database behind the query builder: the table the caller's base      *)
(* query selects, and what the SQL that OfReturn builds means on it.       *)
(***************************************************************************)
ColN == <<"n">>
ColE == <<"e">>

TableRow(n, e) == (ColN :> n) @@ (ColE :> e)

\* the rows of the base query, in storage order
Table ==
    << TableRow(<<"A", "b">>, <<"x">>),
       TableRow(<<"b", "_">>, <<"y">>),
       TableRow(<<"c">>, <<"A">>) >>

TableColumns == {ColN, ColE}

\* s LIKE p from positions i and j: % is any run of characters, _ any one
RECURSIVE LikeFrom(_, _, _, _)
LikeFrom(str, i, pat, j) ==
    IF j > Len(pat) THEN i > Len(str)
    ELSE IF pat[j] = "%"
         THEN LikeFrom(str, i, pat, j + 1) \/ (i <= Len(str) /\ LikeFrom(str, i + 1, pat, j))
         ELSE /\ i <= Len(str)
              /\ (pat[j] = "_" \/ pat[j] = str[i])
              /\ LikeFrom(str, i + 1, pat, j + 1)

Like(str, pat) == LikeFrom(str, 1, pat, 1)

IsSearchClause(cl) ==
    /\ cl.op \in {"Where", "Or"}
    /\ Len(cl.text) >= 2
    /\ cl.text[1] = "LOWER("
    /\ cl.text[Len(cl.text)] = ") LIKE LOWER(?)"

ClauseColumn(cl) == SubSeq(cl.text, 2, Len(cl.text) - 1)

\* a condition of the caller's base query: Where(col + " = ?", value)
BaseCond(col, value) == [op |-> "Where", text |-> col \o <<" = ?">>, args |-> <<value>>]

IsBaseCond(cl) ==
    /\ cl.op = "Where"
    /\ Len(cl.text) >= 1
    /\ cl.text[Len(cl.text)] = " = ?"

BaseColumn(cl) == SubSeq(cl.text, 1, Len(cl.text) - 1)

\* the condition on one row, ? bound to the clause's argument:
\* col = ? or LOWER(col) LIKE LOWER(?)
EvalClause(cl, row) ==
    IF IsBaseCond(cl) THEN row[BaseColumn(cl)] = cl.args[1]
    ELSE Like(ToLower(row[ClauseColumn(cl)]), ToLower(cl.args[1]))

Clauses(query, ops) == SelectSeq(query, LAMBDA cl : cl.op \in ops)

\* the conditions from k on that are AND-joined to condition k
RECURSIVE AndRun(_, _, _)
AndRun(conds, k, row) ==
    /\ EvalClause(conds[k], row)
    /\ (k < Len(conds) /\ conds[k + 1].op = "Where") => AndRun(conds, k + 1, row)

\* the WHERE of the query as the builder renders it: the conditions in call
\* order, a Where joined by AND and an Or by OR, without grouping, so that
\* AND binds first
RowMatches(query, row) ==
    LET conds == Clauses(query, {"Where", "Or"})
    IN conds = <<>>
       \/ \E k \in 1..Len(conds) :
             /\ (k = 1 \/ conds[k].op = "Or")
             /\ AndRun(conds, k, row)

Filter(query, tbl) == SelectSeq(tbl, LAMBDA row : RowMatches(query, row))

\* character codes, in ASCII order, of the characters that occur in values
CharOrder == <<" ", "%", "'", ".">> \o DigitSeq \o <<";">> \o UpperSeq \o <<"_">> \o LowerSeq
CharCode(ch) == CHOOSE k \in 1..Len(CharOrder) : CharOrder[k] = ch

RECURSIVE StrLeq(_, _)
StrLeq(x, y) ==
    IF x = <<>> THEN TRUE
    ELSE IF y = <<>> THEN FALSE
    ELSE IF CharCode(Head(x)) # CharCode(Head(y)) THEN CharCode(Head(x)) < CharCode(Head(y))
    ELSE StrLeq(Tail(x), Tail(y))

\* an ORDER BY text "<column> <direction>": the column before the first
\* blank, the direction after it
BlankAt(text) == { k \in 1..Len(text) : text[k] = " " }
FirstBlank(text) == CHOOSE k \in BlankAt(text) : \A j \in BlankAt(text) : k <= j
OrderColumn(text) == SubSeq(text, 1, FirstBlank(text) - 1)
OrderDirection(text) == ToLower(SubSeq(text, FirstBlank(text) + 1, Len(text)))

IsOrderText(text) ==
    /\ BlankAt(text) # {}
    /\ OrderColumn(text) \in TableColumns
    /\ OrderDirection(text) \in { <<"a", "s", "c">>, <<"d", "e", "s", "c">> }

\* whether the database can execute the query at all
QueryOK(query) ==
    \A k \in 1..Len(query) :
        /\ query[k].op \in {"Where", "Or"} =>
              \/ IsBaseCond(query[k]) /\ BaseColumn(query[k]) \in TableColumns
              \/ IsSearchClause(query[k]) /\ ClauseColumn(query[k]) \in TableColumns
        /\ query[k].op = "Order" => IsOrderText(query[k].text)

RowOrders(sq) ==
    { [i \in 1..Len(sq) |-> sq[f[i]]] :
        f \in { g \in [1..Len(sq) -> 1..Len(sq)] : Range(g) = 1..Len(sq) } }

InOrder(sq, text) ==
    \A i, j \in 1..Len(sq) :
        i < j =>
            IF OrderDirection(text) = <<"a", "s", "c">>
            THEN StrLeq(sq[i][OrderColumn(text)], sq[j][OrderColumn(text)])
            ELSE StrLeq(sq[j][OrderColumn(text)], sq[i][OrderColumn(text)])

\* the row orders the database may answer in: sorted by the (first) ORDER
\* BY when there is one, any order otherwise
Orderings(query, sq) ==
    LET ords == Clauses(query, {"Order"})
    IN IF ords = <<>> THEN RowOrders(sq)
       ELSE { p \in RowOrders(sq) : InOrder(p, ords[1].text) }

Drop(sq, n) == IF n >= Len(sq) THEN <<>> ELSE SubSeq(sq, n + 1, Len(sq))
Take(sq, n) == IF n >= Len(sq) THEN sq ELSE SubSeq(sq, 1, n)

\* OFFSET and LIMIT as the builder renders them: an offset that is not
\* positive is not rendered; the pipeline only sets positive limits
Window(query, sq) ==
    LET offs == Clauses(query, {"Offset"})
        lims == Clauses(query, {"Limit"})
        s1 == IF offs # <<>> /\ offs[Len(offs)].n > 0 THEN Drop(sq, offs[Len(offs)].n) ELSE sq
    IN IF lims # <<>> /\ lims[Len(lims)].n >= 0 THEN Take(s1, lims[Len(lims)].n) ELSE s1

\* SELECT count(*) of the query
CountRows(query) == Len(Filter(query, Table))

\* the results Find may store in dest
FindRows(query) == { Window(query, p) : p \in Orderings(query, Filter(query, Table)) }

\* errors of the transport or the database, other than a rejected statement
TransportErrors == { [kind |-> "db", id |-> "connection lost"],
                     [kind |-> "db", id |-> "timeout"] }
SQLError == [kind |-> "db", id |-> "statement rejected"]

\* the error values a database operation on the query may end with (Nil:
\* success); a statement the database cannot execute always fails
DBOutcomes(query) ==
    IF QueryOK(query) THEN TransportErrors \cup {Nil} ELSE TransportErrors \cup {SQLError}

(***************************************************************************)
(* converter: structToMapSlice on the destination slice                    *)
(***************************************************************************)
\* interface{} values: a Go string or a Go int
StrVal(v) == [t |-> "string", v |-> v]
IntVal(n) == [t |-> "int", v |-> n]

\* the record type the caller fetches into:
\*   type User struct { N string `json:"n"`; E string `json:"e"` }
UserFields ==
    << [Name |-> <<"N">>, json |-> <<"n">>, exported |-> TRUE, column |-> ColN],
       [Name |-> <<"E">>, json |-> <<"e">>, exported |-> TRUE, column |-> ColE] >>

\* the struct value Find stores for a table row: one value per field
UserOf(row) == [k \in 1..Len(UserFields) |-> StrVal(row[UserFields[k].column])]

CommaAt(tag) == { k \in 1..Len(tag) : tag[k] = "," }

\* strings.Split(jsonTag, ",")[0]
BeforeComma(tag) ==
    IF CommaAt(tag) = {} THEN tag
    ELSE SubSeq(tag, 1, (CHOOSE k \in CommaAt(tag) : \A j \in CommaAt(tag) : k <= j) - 1)

\* the key taken to be the whole tag
getFieldName_WholeTag(field) ==
    IF field.json = <<>> THEN field.Name
    ELSE IF field.json = <<"-">> THEN <<>>
    ELSE field.json

getFieldName(field) ==
    IF field.json = <<>> THEN field.Name
    ELSE IF field.json = <<"-">> THEN <<>>
    ELSE BeforeComma(field.json)

\* the field loop of structToMap from field j, m the map built so far
RECURSIVE structToMapFrom(_, _, _, _)
structToMapFrom(fields, vals, j, m) ==
    IF j > Len(fields) THEN m
    ELSE IF ~fields[j].exported THEN structToMapFrom(fields, vals, j + 1, m)
    ELSE IF getFieldName(fields[j]) = <<>> THEN structToMapFrom(fields, vals, j + 1, m)
    ELSE structToMapFrom(fields, vals, j + 1, (getFieldName(fields[j]) :> vals[j]) @@ m)

\* reflect.Value: what the converter sees of a Go value
Invalid == [kind |-> "invalid"]
Scalar == [kind |-> "string"]
MapVal == [kind |-> "map"]
StructVal(fields, vals) == [kind |-> "struct", fields |-> fields, vals |-> vals]
PtrTo(x) == [kind |-> "ptr", elem |-> x]
NilPtr == PtrTo(Invalid)
SliceOf(items) == [kind |-> "slice", items |-> items]

\* v.Elem() when v.Kind() == reflect.Ptr (part_002 35-37, 51-53)
Deref(v) == IF v.kind = "ptr" THEN v.elem ELSE v

\* part_002 65-91; v.NumField() panics unless v is a struct
structToMap(v) ==
    IF v.kind # "struct" THEN [panic |-> TRUE, m |-> <<>>]
    ELSE [panic |-> FALSE, m |-> structToMapFrom(v.fields, v.vals, 1, <<>>)]

\* part_002 31-61
structToMapSlice(data) ==
    LET v == Deref(data)
    IN IF v.kind # "slice" THEN [panic |-> FALSE, isNil |-> TRUE, list |-> <<>>]
       ELSE LET ms == [i \in 1..Len(v.items) |-> structToMap(Deref(v.items[i]))]
            IN IF \E i \in 1..Len(ms) : ms[i].panic
               THEN [panic |-> TRUE, isNil |-> TRUE, list |-> <<>>]
               ELSE [panic |-> FALSE, isNil |-> FALSE,
                     list |-> [i \in 1..Len(ms) |-> ms[i].m]]

(***************************************************************************)
(* options.go, transformer.go                                              *)
(***************************************************************************)
DTRowIndex == <<"D", "T", "_", "R", "o", "w", "I", "n", "d", "e", "x">>

NewOptions ==
    [IndexColumn   |-> DTRowIndex,
     ResetIndex    |-> FALSE,
     DefaultOrder  |-> <<>>,
     AddColumns    |-> <<>>,
     EditColumns   |-> <<>>,
     RemoveColumns |-> <<>>]

WithDefaultOrder(o, order) == [o EXCEPT !.DefaultOrder = order]

WithIndex(o, col, reset) == [o EXCEPT !.IndexColumn = col, !.ResetIndex = reset]

\* the nil interface{} value: what a map lookup of a missing key yields
NilVal == [t |-> "nil", v |-> <<>>]

\* the add and edit callbacks the model registers, by name; they read their
\* arguments and write nothing
ApplyAdd(fn, row) ==
    CASE fn = "count" -> IntVal(Cardinality(DOMAIN row))
      [] fn = "name"  -> IF ColN \in DOMAIN row THEN row[ColN] ELSE NilVal
      [] OTHER -> StrVal(<<>>)

ApplyEdit(fn, val, row) ==
    CASE fn = "lower" -> IF val.t = "string" THEN StrVal(ToLower(val.v)) ELSE val
      [] fn = "next"  -> IF val.t = "int" THEN IntVal(val.v + 1)
                         ELSE IF val.t = "string" THEN StrVal(val.v \o <<"!">>)
                         ELSE StrVal(<<"?">>)
      [] fn = "count" -> IntVal(Cardinality(DOMAIN row))
      [] OTHER -> val

\* an int result: two's complement wrap-around of the mathematical value
WrapInt(n) == ((n + IntCutoff) % (2 * IntCutoff)) - IntCutoff

\* the index step numbering every row from start
indexStep_IgnoreReset(newRow, o, start, i) ==
    IF o.IndexColumn # <<>>
    THEN (o.IndexColumn :> IntVal(WrapInt(start + i + 1))) @@ newRow
    ELSE newRow

\* transformer.go 34-42: the index step on the copy of row i (0-based)
indexStep(newRow, o, start, i) ==
    IF o.IndexColumn # <<>>
    THEN IF o.ResetIndex
         THEN (o.IndexColumn :> IntVal(WrapInt(i + 1))) @@ newRow
         ELSE (o.IndexColumn :> IntVal(WrapInt(start + i + 1))) @@ newRow
    ELSE newRow

\* transformer.go 45-47: the range over opts.AddColumns visiting the keys in
\* the given order, from its j-th key; calls are the invocations made
RECURSIVE addLoop(_, _, _, _, _)
addLoop(newRow, row, addColumns, order, j) ==
    IF j > Len(order) THEN [newRow |-> newRow, calls |-> <<>>]
    ELSE LET colName == order[j]
             fn      == addColumns[colName]
             rest    == addLoop((colName :> ApplyAdd(fn, row)) @@ newRow,
                                row, addColumns, order, j + 1)
         IN [newRow |-> rest.newRow,
             calls  |-> <<[col |-> colName, fn |-> fn, row |-> row]>> \o rest.calls]

\* the edit loop handing the working copy to the callbacks
RECURSIVE editLoop_WorkingRow(_, _, _, _, _)
editLoop_WorkingRow(newRow, row, editColumns, order, j) ==
    IF j > Len(order) THEN [newRow |-> newRow, calls |-> <<>>]
    ELSE LET colName == order[j]
             fn      == editColumns[colName]
         IN IF colName \in DOMAIN newRow
            THEN LET rest == editLoop_WorkingRow(
                                 [newRow EXCEPT ![colName] = ApplyEdit(fn, newRow[colName], newRow)],
                                 row, editColumns, order, j + 1)
                 IN [newRow |-> rest.newRow,
                     calls  |-> <<[col |-> colName, fn |-> fn, val |-> newRow[colName],
                                   row |-> newRow]>> \o rest.calls]
            ELSE editLoop_WorkingRow(newRow, row, editColumns, order, j + 1)

\* the edit loop without the test that the column exists
RECURSIVE editLoop_NoPresenceCheck(_, _, _, _, _)
editLoop_NoPresenceCheck(newRow, row, editColumns, order, j) ==
    IF j > Len(order) THEN [newRow |-> newRow, calls |-> <<>>]
    ELSE LET colName == order[j]
             fn      == editColumns[colName]
             val     == IF colName \in DOMAIN newRow THEN newRow[colName] ELSE NilVal
             rest    == editLoop_NoPresenceCheck((colName :> ApplyEdit(fn, val, row)) @@ newRow,
                                                 row, editColumns, order, j + 1)
         IN [newRow |-> rest.newRow,
             calls  |-> <<[col |-> colName, fn |-> fn, val |-> val, row |-> row]>> \o rest.calls]

\* transformer.go 50-54: the range over opts.EditColumns visiting the keys
\* in the given order, from its j-th key
RECURSIVE editLoop(_, _, _, _, _)
editLoop(newRow, row, editColumns, order, j) ==
    IF j > Len(order) THEN [newRow |-> newRow, calls |-> <<>>]
    ELSE LET colName == order[j]
             fn      == editColumns[colName]
         IN IF colName \in DOMAIN newRow
            THEN LET rest == editLoop(
                                 [newRow EXCEPT ![colName] = ApplyEdit(fn, newRow[colName], row)],
                                 row, editColumns, order, j + 1)
                 IN [newRow |-> rest.newRow,
                     calls  |-> <<[col |-> colName, fn |-> fn, val |-> newRow[colName],
                                   row |-> row]>> \o rest.calls]
            ELSE editLoop(newRow, row, editColumns, order, j + 1)

\* transformer.go 57-59: delete(newRow, col) for the columns from the j-th
RECURSIVE removeLoop(_, _, _)
removeLoop(newRow, removeColumns, j) ==
    IF j > Len(removeColumns) THEN newRow
    ELSE removeLoop([k \in DOMAIN newRow \ {removeColumns[j]} |-> newRow[k]],
                    removeColumns, j + 1)

\* one row with the removals made before the additions
applyOptionsRow_RemoveFirst(row, o, start, i, order) ==
    LET removed == removeLoop(row, o.RemoveColumns, 1)
        indexed == indexStep(removed, o, start, i)
        added   == addLoop(indexed, row, o.AddColumns, order.add, 1)
        edited  == editLoop(added.newRow, row, o.EditColumns, order.edit, 1)
    IN [out |-> edited.newRow, indexed |-> indexed, added |-> added.newRow,
        edited |-> edited.newRow, addCalls |-> added.calls, editCalls |-> edited.calls]

\* transformer.go 26-61: one row of applyOptions; i is the row's 0-based
\* position in data, order the orders in which the two map ranges visit
\* their keys.  Besides the row appended to out the result keeps the working
\* copy after each step and the callback invocations made.
applyOptionsRow(row, o, start, i, order) ==
    LET indexed == indexStep(row, o, start, i)
        added   == addLoop(indexed, row, o.AddColumns, order.add, 1)
        edited  == editLoop(added.newRow, row, o.EditColumns, order.edit, 1)
        removed == removeLoop(edited.newRow, o.RemoveColumns, 1)
    IN [out |-> removed, indexed |-> indexed, added |-> added.newRow,
        edited |-> edited.newRow, addCalls |-> added.calls, editCalls |-> edited.calls]

\* the orders the map ranges of one applyOptions call may take, row by row
RangeOrders(data, o) ==
    [1..Len(data.list) -> [add : KeyOrders(o.AddColumns), edit : KeyOrders(o.EditColumns)]]

\* map identities: input row k of data is the map at address k; a map made
\* during the call gets an address no input row has
newRowAddr_Alias(data, k) == k

\* transformer.go 28: newRow := make(map[string]interface{}) for row k
newRowAddr(data, k) == Len(data.list) + k

\* the maps in memory after the rows' writes: every write of row k's steps
\* goes to the map at dst[k]
HeapAfter(data, run, dst) ==
    [a \in (1..Len(data.list)) \cup Range(dst) |->
        IF \E k \in 1..Len(dst) : dst[k] = a
        THEN run[CHOOSE k \in 1..Len(dst) : dst[k] = a /\ \A j \in 1..Len(dst) : dst[j] = a => j <= k].out
        ELSE data.list[a]]

\* applyOptions without the nil test
applyOptions_NilToEmpty(data, o, start, orders) ==
    LET run == [k \in 1..Len(data.list) |->
                   applyOptionsRow(data.list[k], o, start, k - 1, orders[k])]
        dst == [k \in 1..Len(data.list) |-> newRowAddr(data, k)]
    IN [ret   |-> [isNil |-> FALSE, list |-> [k \in 1..Len(data.list) |-> run[k].out]],
        trace |-> run, out |-> dst, heap |-> HeapAfter(data, run, dst), opts |-> o]

\* transformer.go 19-65: ret is the slice returned, trace the rows' records,
\* out the addresses of the maps appended to out, heap the maps in memory
\* and opts the options when the call returns
applyOptions(data, o, start, orders) ==
    IF data.isNil
    THEN [ret |-> data, trace |-> <<>>, out |-> <<>>, heap |-> <<>>, opts |-> o]
    ELSE LET run == [k \in 1..Len(data.list) |->
                        applyOptionsRow(data.list[k], o, start, k - 1, orders[k])]
             dst == [k \in 1..Len(data.list) |-> newRowAddr(data, k)]
         IN [ret   |-> [isNil |-> FALSE, list |-> [k \in 1..Len(data.list) |-> run[k].out]],
             trace |-> run, out |-> dst, heap |-> HeapAfter(data, run, dst), opts |-> o]

(***************************************************************************)
(* dto.Params, dto.Datatables and the idle pipeline                        *)
(***************************************************************************)
ZeroParams ==
    [Draw |-> 0, Start |-> 0, Length |-> 0, Search |-> <<>>, Order |-> <<>>, Dir |-> <<>>]

\* dto.Datatables{} : the zero value (Data is a nil interface)
ZeroDatatables ==
    [Draw |-> 0, RecordsTotal |-> 0, RecordsFiltered |-> 0, Data |-> [isNil |-> TRUE, list |-> <<>>]]

NoReturn == [returned |-> FALSE, res |-> ZeroDatatables, err |-> Nil]

PipeInit ==
    /\ base = <<>>
    /\ pc = "idle"
    /\ searchable = <<>>
    /\ orderable = <<>>
    /\ opts = NewOptions
    /\ req = <<>>
    /\ params = ZeroParams
    /\ total = 0
    /\ filtered = 0
    /\ fquery = <<>>
    /\ dbops = <<>>
    /\ steps = <<>>
    /\ dest = <<>>
    /\ rows = [isNil |-> TRUE, list |-> <<>>]
    /\ ret = NoReturn

(***************************************************************************)
(* Specification SpecValid: calls of the three validation functions        *)
(***************************************************************************)
\* longest column name tried on isValidColumnName
MaxNameLen == 2
\* longest searchable list tried on validateSearchableColumns
MaxCols == 2

\* a letter of each case, a digit, the two punctuation marks of the class,
\* and characters outside the class (a non-ASCII letter among them)
NameChars == {"a", "Z", "7", "_", ".", ";", " ", "LF", "U+00E9"}

ColumnPool == BoundedSeq({"a", ".", ";"}, MaxNameLen)

OrderKeyPool == { <<"n">>, <<"c">>, <<"n", ";">>, <<>> }
OrderValPool == { <<"n">>, <<"t", ".", "c">>, <<"n", "'">> }

\* the calls tried: the function, its argument, and (once made) its result
ValidCalls ==
    { [op |-> "isValidColumnName", arg |-> s, done |-> FALSE, ret |-> Nil] :
          s \in BoundedSeq(NameChars, MaxNameLen) }
    \cup
    { [op |-> "validateSearchableColumns", arg |-> cols, done |-> FALSE, ret |-> Nil] :
          cols \in BoundedSeq(ColumnPool, MaxCols) }
    \cup
    { [op |-> "validateOrderableColumns", arg |-> m, done |-> FALSE, ret |-> Nil] :
          m \in UNION { [keys -> OrderValPool] : keys \in SUBSET OrderKeyPool } }

IsValidCall ==
    /\ vcall.op = "isValidColumnName" /\ ~vcall.done
    /\ vcall' = [vcall EXCEPT !.done = TRUE, !.ret = isValidColumnName(vcall.arg)]
    /\ UNCHANGED <<pcall, ocall, conc, ccall, bcall, pipeVars>>

ValidateSearchableCall ==
    /\ vcall.op = "validateSearchableColumns" /\ ~vcall.done
    /\ vcall' = [vcall EXCEPT !.done = TRUE, !.ret = validateSearchableColumns(vcall.arg)]
    /\ UNCHANGED <<pcall, ocall, conc, ccall, bcall, pipeVars>>

ValidateOrderableCall ==
    /\ vcall.op = "validateOrderableColumns" /\ ~vcall.done
    /\ \E r \in validateOrderableColumns(vcall.arg) :
          vcall' = [vcall EXCEPT !.done = TRUE, !.ret = r]
    /\ UNCHANGED <<pcall, ocall, conc, ccall, bcall, pipeVars>>

ValidInit ==
    /\ vcall \in ValidCalls
    /\ pcall = NoCall
    /\ ocall = NoCall
    /\ conc = NoCall
    /\ ccall = NoCall
    /\ bcall = NoCall
    /\ PipeInit

ValidNext == IsValidCall \/ ValidateSearchableCall \/ ValidateOrderableCall

SpecValid == ValidInit /\ [][ValidNext]_vars

\* C2: isValidColumnName(s) is true exactly when s is non-empty and each of
\* its characters is an ASCII letter, a digit, an underscore or a dot; the
\* name is taken as given (no trimming, no case folding).
C2_ValidIffSafeChars ==
    (vcall.op = "isValidColumnName" /\ vcall.done) =>
        (vcall.ret <=>
            /\ Len(vcall.arg) >= 1
            /\ \A i \in 1..Len(vcall.arg) :
                  \/ \E k \in 1..26 : vcall.arg[i] = LowerSeq[k] \/ vcall.arg[i] = UpperSeq[k]
                  \/ \E k \in 1..10 : vcall.arg[i] = DigitSeq[k]
                  \/ vcall.arg[i] = "_"
                  \/ vcall.arg[i] = ".")

\* a qualified name (with a dot) is accepted
C2_Witness ==
    /\ vcall.op = "isValidColumnName" /\ vcall.done
    /\ vcall.arg = <<"Z", ".">>
    /\ vcall.ret = TRUE

InvalidIdx(cols) == { i \in 1..Len(cols) : ~isValidColumnName(cols[i]) }

\* C3: validateSearchableColumns fails iff some name is invalid, naming the
\* first invalid one; validateOrderableColumns fails iff some key or value
\* is invalid, naming an invalid key or value; both accept the empty input.
C3_ValidateColumns ==
    /\ (vcall.op = "validateSearchableColumns" /\ vcall.done) =>
         /\ (vcall.ret.kind = "ValidationError") <=> (InvalidIdx(vcall.arg) # {})
         /\ (vcall.ret.kind # "ValidationError") => vcall.ret = Nil
         /\ (vcall.ret.kind = "ValidationError") =>
               \E i \in InvalidIdx(vcall.arg) :
                  /\ \A j \in InvalidIdx(vcall.arg) : i <= j
                  /\ vcall.ret.Field = vcall.arg[i]
         /\ (vcall.arg = <<>>) => vcall.ret = Nil
    /\ (vcall.op = "validateOrderableColumns" /\ vcall.done) =>
         LET m == vcall.arg
             bad == { k \in DOMAIN m : ~isValidColumnName(k) }
                      \cup { m[k] : k \in { x \in DOMAIN m : ~isValidColumnName(m[x]) } }
         IN /\ (vcall.ret.kind = "ValidationError") <=> (bad # {})
            /\ (vcall.ret.kind # "ValidationError") => vcall.ret = Nil
            /\ (vcall.ret.kind = "ValidationError") => vcall.ret.Field \in bad
            /\ (DOMAIN m = {}) => vcall.ret = Nil

\* a list whose first name is valid and whose second is not: the second is named
C3_Witness ==
    /\ vcall.op = "validateSearchableColumns" /\ vcall.done
    /\ Len(vcall.arg) = 2
    /\ isValidColumnName(vcall.arg[1])
    /\ ~isValidColumnName(vcall.arg[2])
    /\ vcall.ret.kind = "ValidationError"
    /\ vcall.ret.Field = vcall.arg[2]

\* a mapping with a valid key and an invalid value is rejected on the value
C3_WitnessOrderable ==
    /\ vcall.op = "validateOrderableColumns" /\ vcall.done
    /\ DOMAIN vcall.arg = { <<"n">> }
    /\ vcall.ret.kind = "ValidationError"
    /\ vcall.ret.Field = <<"n", "'">>

(***************************************************************************)
(* Specification SpecParse: ParseParams on one request                     *)
(***************************************************************************)
\* an optional parameter is <<>> (absent) or <<value>> (present)
Absent == <<>>
Present(v) == <<v>>

Param(name, o) == IF o = Absent THEN <<>> ELSE (Key(name) :> o[1])

QueryStrings(D, S, L, Q, O, R, C) ==
    { Param("draw", d) @@ Param("start", st) @@ Param("length", l)
        @@ Param("search[value]", q) @@ Param("order[0][column]", o)
        @@ Param("order[0][dir]", r) @@ cd :
      d \in D, st \in S, l \in L, q \in Q, o \in O, r \in R, cd \in C }

DrawPool == { Absent, Present(<<"5">>), Present(<<"x">>), Present(<<"9", "9", "9", "9", "9", "9">>) }
StartPool ==
    { Absent, Present(<<"2", "0">>), Present(<<"-", "5">>), Present(<<>>),
      Present(<<"9", "9", "9", "9", "9", "9">>) }
LengthPool ==
    { Absent, Present(<<"-", "1">>), Present(<<"0">>), Present(<<"-", "2">>),
      Present(<<"2", "5">>), Present(<<"5", "0", "0">>), Present(<<"5", "0", "1">>),
      Present(<<"1", "0", "0", "0", "0">>), Present(<<"9", "9", "9", "9", "9", "9">>),
      Present(<<"-", "9", "9", "9", "9", "9", "9">>),
      Present(<<"a", "b", "c">>), Present(<<>>) }
SearchPool == { Absent, Present(<<"f", "o">>) }
OrderColumnPool == { Absent, Present(<<>>), Present(<<"n">>), Present(<<"1">>) }
OrderDirPool ==
    { Absent, Present(<<"d", "e", "s", "c">>), Present(<<"D", "E", "S", "C">>),
      Present(<<"a", "s", "c">>), Present(<<"u", "p">>), Present(<<>>) }
ColumnsDataPool ==
    { <<>>,
      ColumnsDataKey(<<"0">>) :> <<"n">>,
      ColumnsDataKey(<<"1">>) :> <<"e">>,
      ColumnsDataKey(<<>>) :> <<"x">>,
      (ColumnsDataKey(<<"0">>) :> <<"n">>) @@ (ColumnsDataKey(<<"1">>) :> <<"e">>) }

ParseRequests ==
    QueryStrings(DrawPool, StartPool, LengthPool, SearchPool, OrderColumnPool,
                 OrderDirPool, ColumnsDataPool)

ParseParamsCall ==
    /\ pcall.op = "ParseParams" /\ ~pcall.done
    /\ pcall' = [pcall EXCEPT !.done = TRUE, !.ret = ParseParams(pcall.arg)]
    /\ UNCHANGED <<vcall, ocall, conc, ccall, bcall, pipeVars>>

ParseInit ==
    /\ pcall \in { [op |-> "ParseParams", arg |-> c, done |-> FALSE, ret |-> ZeroParams] :
                      c \in ParseRequests }
    /\ vcall = NoCall
    /\ ocall = NoCall
    /\ conc = NoCall
    /\ ccall = NoCall
    /\ bcall = NoCall
    /\ PipeInit

ParseNext == ParseParamsCall

SpecParse == ParseInit /\ [][ParseNext]_vars

\* C10: every Params value ParseParams produces has Start >= 0 and a
\* Length that is at least 1 or exactly the unbounded sentinel -1.
C10_ParamsInRange ==
    (pcall.op = "ParseParams" /\ pcall.done) =>
        /\ pcall.ret.Start >= 0
        /\ (pcall.ret.Length >= 1 \/ pcall.ret.Length = -1)

ParseDone == pcall.op = "ParseParams" /\ pcall.done

IsPresent(c, name) == Key(name) \in DOMAIN c

\* a decimal numeral: an optional sign and at least one digit
Unsigned(s) == IF s # <<>> /\ Head(s) \in {"+", "-"} THEN Tail(s) ELSE s

IsNumeral(s) ==
    /\ Unsigned(s) # <<>>
    /\ \A i \in 1..Len(Unsigned(s)) : \E d \in 1..10 : Unsigned(s)[i] = DigitSeq[d]

RECURSIVE Magnitude(_)
Magnitude(digits) ==
    IF digits = <<>> THEN 0
    ELSE 10 * Magnitude(SubSeq(digits, 1, Len(digits) - 1))
         + (CHOOSE d \in 0..9 : DigitSeq[d + 1] = digits[Len(digits)])

NumeralValue(s) == IF Head(s) = "-" THEN -Magnitude(Unsigned(s)) ELSE Magnitude(Unsigned(s))

\* the text is an integer of the int type
IsIntegerText(s) ==
    /\ IsNumeral(s)
    /\ NumeralValue(s) >= -(2^(IntBits - 1))
    /\ NumeralValue(s) <= 2^(IntBits - 1) - 1

\* C11: an absent draw, start or length takes its default 1, 0, 10; one that
\* is present but is no integer of the int type (not a numeral, empty, or out
\* of range) gives 0 for its field.
C11_DefaultsAndZeroOnFailure ==
    ParseDone =>
        LET c == pcall.arg
            r == pcall.ret
        IN /\ ~IsPresent(c, "draw") => r.Draw = 1
           /\ ~IsPresent(c, "start") => r.Start = 0
           /\ ~IsPresent(c, "length") => r.Length = 10
           /\ (IsPresent(c, "draw") /\ ~IsIntegerText(c[Key("draw")])) => r.Draw = 0
           /\ (IsPresent(c, "start") /\ ~IsIntegerText(c[Key("start")])) => r.Start = 0
           /\ (IsPresent(c, "length") /\ ~IsIntegerText(c[Key("length")])) => r.Length = 0

Asc == <<"a", "s", "c">>
Desc == <<"d", "e", "s", "c">>

\* C12: the parsed direction is asc or desc: desc exactly when the
\* order[0][dir] parameter is present and is desc in any letter case, asc
\* when it is absent or anything else.
C12_DirectionClamped ==
    ParseDone =>
        LET c == pcall.arg
            r == pcall.ret
        IN /\ r.Dir \in {Asc, Desc}
           /\ ~IsPresent(c, "order[0][dir]") => r.Dir = Asc
           /\ IsPresent(c, "order[0][dir]") =>
                 (r.Dir = Desc <=>
                     /\ Len(c[Key("order[0][dir]")]) = 4
                     /\ \A i \in 1..4 :
                           \/ c[Key("order[0][dir]")][i] = Desc[i]
                           \/ c[Key("order[0][dir]")][i] = <<"D", "E", "S", "C">>[i])

\* an upper-case DESC is recognised
C12_Witness ==
    /\ ParseDone
    /\ IsPresent(pcall.arg, "order[0][dir]")
    /\ pcall.arg[Key("order[0][dir]")] = <<"D", "E", "S", "C">>
    /\ pcall.ret.Dir = Desc

\* C13: a present, non-empty order[0][column] is the order key verbatim,
\* whatever columns[i][data] parameters there are; an absent one gives the
\* value of columns[0][data], or the empty key when that is absent too.
C13_DirectNameFirst ==
    ParseDone =>
        LET c == pcall.arg
            r == pcall.ret
        IN /\ (IsPresent(c, "order[0][column]") /\ c[Key("order[0][column]")] # <<>>) =>
                 r.Order = c[Key("order[0][column]")]
           /\ ~IsPresent(c, "order[0][column]") =>
                 IF <<"columns[", "0", "][data]">> \in DOMAIN c
                 THEN r.Order = c[<<"columns[", "0", "][data]">>]
                 ELSE r.Order = <<>>

\* no direct name: the key comes from columns[0][data]
C13_Witness ==
    /\ ParseDone
    /\ ~IsPresent(pcall.arg, "order[0][column]")
    /\ <<"columns[", "0", "][data]">> \in DOMAIN pcall.arg
    /\ <<"columns[", "1", "][data]">> \in DOMAIN pcall.arg
    /\ pcall.ret.Order = <<"n">>

\* C14: when order[0][column] is a numeric index i and columns[i][data] is
\* present, the order key is the value of columns[i][data].
C14_IndexResolved ==
    ParseDone =>
        LET c == pcall.arg
        IN (/\ IsPresent(c, "order[0][column]")
            /\ c[Key("order[0][column]")] # <<>>
            /\ \A i \in 1..Len(c[Key("order[0][column]")]) :
                  c[Key("order[0][column]")][i] \in Range(DigitSeq)
            /\ (<<"columns[">> \o c[Key("order[0][column]")] \o <<"][data]">>) \in DOMAIN c)
           => pcall.ret.Order = c[<<"columns[">> \o c[Key("order[0][column]")] \o <<"][data]">>]

(***************************************************************************)
(* Specification SpecOptions: applyOptions on one list of rows             *)
(***************************************************************************)
MaxRows == 2

ColI == <<"i">>
ColF == <<"f">>
ColZ == <<"z">>

\* the rows applyOptions is tried on; the last one has no key e
RowPool ==
    { (ColN :> StrVal(<<"A", "b">>)) @@ (ColE :> StrVal(<<"X">>)),
      (ColN :> StrVal(<<"c">>)) @@ (ColE :> StrVal(<<"y">>)),
      (ColN :> StrVal(<<"d">>)) }

NilData == [isNil |-> TRUE, list |-> <<>>]

DataPool ==
    {NilData} \cup { [isNil |-> FALSE, list |-> l] : l \in BoundedSeq(RowPool, MaxRows) }

\* add callbacks: none; a new column; the index column's name; a new column
\* and the name of an original column
AddPool ==
    { <<>>,
      (ColF :> "count"),
      (ColI :> "name"),
      (ColF :> "name") @@ (ColN :> "count") }

\* edit callbacks: none; an original column; the index column and an added
\* column; a column no row has and an original column
EditPool ==
    { <<>>,
      (ColE :> "lower"),
      (ColI :> "next") @@ (ColF :> "next"),
      (ColZ :> "next") @@ (ColN :> "count") }

RemovePool == { <<>>, <<ColE>>, <<ColI, ColF>>, <<ColN, ColZ>> }

IndexPool == { [col |-> c, reset |-> b] : c \in {<<>>, ColI}, b \in BOOLEAN }

OffsetPool == {0, 10, IntCutoff - 1}

OptionsCalls ==
    { [op |-> "applyOptions", data |-> d,
       opts |-> [WithIndex(NewOptions, x.col, x.reset) EXCEPT
                    !.AddColumns = a, !.EditColumns = e, !.RemoveColumns = r],
       start |-> st, done |-> FALSE, ret |-> NilData, trace |-> <<>>,
       out |-> <<>>, heap |-> d.list, optsAfter |-> NewOptions] :
      d \in DataPool, x \in IndexPool, a \in AddPool, e \in EditPool,
      r \in RemovePool, st \in OffsetPool }

ApplyOptionsCall ==
    /\ ocall.op = "applyOptions" /\ ~ocall.done
    /\ \E orders \in RangeOrders(ocall.data, ocall.opts) :
          LET r == applyOptions(ocall.data, ocall.opts, ocall.start, orders)
          IN ocall' = [ocall EXCEPT !.done = TRUE, !.ret = r.ret, !.trace = r.trace,
                                    !.out = r.out, !.heap = r.heap, !.optsAfter = r.opts]
    /\ UNCHANGED <<vcall, pcall, conc, ccall, bcall, pipeVars>>

OptionsInit ==
    /\ ocall \in OptionsCalls
    /\ vcall = NoCall
    /\ pcall = NoCall
    /\ conc = NoCall
    /\ ccall = NoCall
    /\ bcall = NoCall
    /\ PipeInit

OptionsNext == ApplyOptionsCall

SpecOptions == OptionsInit /\ [][OptionsNext]_vars

\* a finished applyOptions call on a list that is not nil
OptionsDone == ocall.op = "applyOptions" /\ ocall.done /\ ~ocall.data.isNil

RowIdx == 1..Len(ocall.data.list)

Without(m, names) == [k \in DOMAIN m \ names |-> m[k]]

\* remove(edit(add(index(copy)))) of input row k, each step as a whole
IndexOf(k) ==
    IF ocall.opts.IndexColumn = <<>> THEN ocall.data.list[k]
    ELSE [c \in DOMAIN ocall.data.list[k] \cup {ocall.opts.IndexColumn} |->
             IF c = ocall.opts.IndexColumn
             THEN IntVal(WrapInt(IF ocall.opts.ResetIndex THEN k ELSE ocall.start + k))
             ELSE ocall.data.list[k][c]]

AddOf(k) ==
    [c \in DOMAIN IndexOf(k) \cup DOMAIN ocall.opts.AddColumns |->
        IF c \in DOMAIN ocall.opts.AddColumns
        THEN ApplyAdd(ocall.opts.AddColumns[c], ocall.data.list[k])
        ELSE IndexOf(k)[c]]

EditOf(k) ==
    [c \in DOMAIN AddOf(k) |->
        IF c \in DOMAIN ocall.opts.EditColumns
        THEN ApplyEdit(ocall.opts.EditColumns[c], AddOf(k)[c], ocall.data.list[k])
        ELSE AddOf(k)[c]]

RemoveOf(k) == Without(EditOf(k), Range(ocall.opts.RemoveColumns))

\* C16: every output row is remove(edit(add(index(copy of the row)))), the
\* steps in that order: no name of the remove list is a key of an output
\* row, and where an add function is registered under the name of the index
\* column or of an original column, its result is what the later steps see.
C16_StepsInFixedOrder ==
    OptionsDone =>
        \A k \in RowIdx :
            /\ ocall.ret.list[k] = RemoveOf(k)
            /\ DOMAIN ocall.ret.list[k] \cap Range(ocall.opts.RemoveColumns) = {}
            /\ \A c \in DOMAIN ocall.opts.AddColumns :
                  ocall.trace[k].added[c] = ApplyAdd(ocall.opts.AddColumns[c], ocall.data.list[k])

\* the index column was set, replaced by an add function, edited and then
\* removed together with an added column
C16_Witness ==
    /\ OptionsDone
    /\ Len(ocall.data.list) = 2
    /\ ocall.opts.IndexColumn = ColI
    /\ ColI \in DOMAIN ocall.opts.AddColumns
    /\ ColI \in DOMAIN ocall.opts.EditColumns
    /\ ocall.opts.RemoveColumns = <<ColI, ColF>>
    /\ ocall.trace[1].indexed[ColI].t = "int"
    /\ ocall.trace[1].added[ColI] = ocall.data.list[1][ColN]
    /\ ColI \notin DOMAIN ocall.ret.list[1]

\* the names the add, edit and remove steps of the call may touch
TouchedColumns ==
    DOMAIN ocall.opts.AddColumns \cup DOMAIN ocall.opts.EditColumns
        \cup Range(ocall.opts.RemoveColumns)

C17_WitnessReset ==
    /\ OptionsDone
    /\ ocall.start = 10
    /\ ocall.opts.ResetIndex
    /\ ocall.opts.IndexColumn = ColI
    /\ Len(ocall.ret.list) = 2
    /\ ocall.ret.list[1][ColI] = IntVal(1)
    /\ ocall.ret.list[2][ColI] = IntVal(2)

\* the callback invocations made for row k, adds and edits
RowArgs(k) ==
    { ocall.trace[k].addCalls[j].row : j \in 1..Len(ocall.trace[k].addCalls) }
        \cup { ocall.trace[k].editCalls[j].row : j \in 1..Len(ocall.trace[k].editCalls) }

\* C18: every add and every edit function gets the original input row as
\* its row argument: it has the input row's keys and values, so neither the
\* index column nor an added column that the input row lacks, nor an added
\* or edited value, in whatever order the two maps are ranged over; and each
\* add function is invoked once per row.
C18_CallbacksGetOriginalRow ==
    OptionsDone =>
        \A k \in RowIdx :
            /\ \A arg \in RowArgs(k) :
                  /\ arg = ocall.data.list[k]
                  /\ DOMAIN arg = DOMAIN ocall.data.list[k]
                  /\ \A c \in ({ocall.opts.IndexColumn} \cup DOMAIN ocall.opts.AddColumns)
                                 \ DOMAIN ocall.data.list[k] : c \notin DOMAIN arg
                  /\ \A c \in DOMAIN arg : arg[c] = ocall.data.list[k][c]
            /\ { ocall.trace[k].addCalls[j].col : j \in 1..Len(ocall.trace[k].addCalls) }
                  = DOMAIN ocall.opts.AddColumns
            /\ Len(ocall.trace[k].addCalls) = Cardinality(DOMAIN ocall.opts.AddColumns)

\* the edit of the added column ran before the edit of the index column,
\* both after the add, and the second edit got the two-key input row
C18_Witness ==
    /\ OptionsDone
    /\ Len(ocall.data.list) >= 1
    /\ ocall.opts.IndexColumn = ColI
    /\ ColF \in DOMAIN ocall.opts.AddColumns
    /\ Len(ocall.trace[1].editCalls) = 2
    /\ ocall.trace[1].editCalls[1].col = ColF
    /\ ocall.trace[1].editCalls[2].col = ColI
    /\ DOMAIN ocall.trace[1].editCalls[2].row = {ColN, ColE}
    /\ DOMAIN ocall.trace[1].edited = {ColN, ColE, ColI, ColF}

\* C19: the edit function of column c is invoked for a row exactly when c
\* is a key of the working copy after the index and add steps, once, with
\* that copy's value of c, and its result replaces the value; when c is not
\* a key the function is not called and the copy keeps its keys and values.
C19_EditOnlyExistingKeys ==
    OptionsDone =>
        \A k \in RowIdx :
            LET calls  == ocall.trace[k].editCalls
                added  == ocall.trace[k].added
                edited == ocall.trace[k].edited
            IN /\ { calls[j].col : j \in 1..Len(calls) }
                     = DOMAIN ocall.opts.EditColumns \cap DOMAIN added
               /\ Len(calls) = Cardinality(DOMAIN ocall.opts.EditColumns \cap DOMAIN added)
               /\ \A j \in 1..Len(calls) :
                     /\ calls[j].fn = ocall.opts.EditColumns[calls[j].col]
                     /\ calls[j].val = added[calls[j].col]
                     /\ edited[calls[j].col] = ApplyEdit(calls[j].fn, calls[j].val, calls[j].row)
               /\ DOMAIN edited = DOMAIN added
               /\ \A c \in DOMAIN added \ DOMAIN ocall.opts.EditColumns : edited[c] = added[c]

\* of two edit functions the one for a column the row lacks was not called
C19_Witness ==
    /\ OptionsDone
    /\ Len(ocall.data.list) >= 1
    /\ DOMAIN ocall.opts.EditColumns = {ColZ, ColN}
    /\ Len(ocall.trace[1].editCalls) = 1
    /\ ocall.trace[1].editCalls[1].col = ColN
    /\ ColZ \notin DOMAIN ocall.trace[1].edited
    /\ ColN \in DOMAIN ocall.ret.list[1]
    /\ ocall.ret.list[1][ColN].t = "int"

\* C20: applyOptions returns nil exactly when its input is nil; for an
\* input that is not nil the output has as many rows, output row i comes
\* from input row i (its keys, and the input's values under the keys no step
\* touches), and an empty input gives an empty output.
C20_ShapePreserved ==
    (ocall.op = "applyOptions" /\ ocall.done) =>
        /\ ocall.ret.isNil <=> ocall.data.isNil
        /\ Len(ocall.ret.list) = Len(ocall.data.list)
        /\ ocall.data.list = <<>> => ocall.ret.list = <<>>
        /\ \A k \in RowIdx :
              /\ DOMAIN ocall.ret.list[k] =
                    (DOMAIN ocall.data.list[k] \cup DOMAIN ocall.opts.AddColumns
                        \cup ({ocall.opts.IndexColumn} \ {<<>>}))
                    \ Range(ocall.opts.RemoveColumns)
              /\ \A c \in DOMAIN ocall.data.list[k] \ (TouchedColumns \cup {ocall.opts.IndexColumn}) :
                    ocall.ret.list[k][c] = ocall.data.list[k][c]

\* two different rows came out in the order they went in
C20_Witness ==
    /\ OptionsDone
    /\ Len(ocall.data.list) = 2
    /\ ColN \notin TouchedColumns
    /\ ocall.data.list[1][ColN] = StrVal(<<"c">>)
    /\ ocall.data.list[2][ColN] = StrVal(<<"A", "b">>)
    /\ ocall.ret.list[1][ColN] = StrVal(<<"c">>)
    /\ ocall.ret.list[2][ColN] = StrVal(<<"A", "b">>)
    /\ ocall.opts.IndexColumn = ColI
    /\ ocall.opts.AddColumns # <<>>

\* the nil list came back as nil
C20_WitnessNil ==
    /\ ocall.op = "applyOptions"
    /\ ocall.done
    /\ ocall.data.isNil
    /\ ocall.ret.isNil

\* C21: applyOptions writes neither to its options nor to an input row:
\* after the call the options are the ones passed, the map of every input
\* row holds what it held before, and every output row is a map other than
\* every input row's map (and holds the returned row).
C21_NoWriteToArguments ==
    OptionsDone =>
        /\ ocall.optsAfter = ocall.opts
        /\ \A k \in RowIdx :
              /\ ocall.heap[k] = ocall.data.list[k]
              /\ ocall.out[k] \notin RowIdx
              /\ ocall.heap[ocall.out[k]] = ocall.ret.list[k]
              /\ \A j \in RowIdx : j # k => ocall.out[j] # ocall.out[k]

\* two rows got an index and an added column, in maps of their own
C21_Witness ==
    /\ OptionsDone
    /\ Len(ocall.data.list) = 2
    /\ ocall.opts.IndexColumn = ColI
    /\ ColF \in DOMAIN ocall.opts.AddColumns
    /\ ocall.opts.RemoveColumns = <<ColE>>
    /\ ColF \in DOMAIN ocall.heap[ocall.out[1]]
    /\ ColF \notin DOMAIN ocall.heap[1]
    /\ ColE \in DOMAIN ocall.heap[1]

(***************************************************************************)
(* Specification SpecShared: two requests run applyOptions at the same     *)
(* time with one Options value; a step is one pass of the row loop         *)
(***************************************************************************)
Requests == {1, 2}

\* every call appending to the slice of request 1
outOwner_Shared(p) == 1

\* transformer.go 24: out is made by the call, the request appends to its own
outOwner(p) == p

SharedDataPool ==
    BoundedSeq({ (ColN :> StrVal(<<"A", "b">>)) @@ (ColE :> StrVal(<<"X">>)),
                 (ColN :> StrVal(<<"d">>)) }, MaxRows)

SharedOptionsPool ==
    { NewOptions,
      [WithIndex(NewOptions, ColI, FALSE) EXCEPT
          !.AddColumns = (ColF :> "count"),
          !.EditColumns = (ColI :> "next") @@ (ColF :> "next"),
          !.RemoveColumns = <<ColE>>],
      [WithIndex(NewOptions, ColI, TRUE) EXCEPT
          !.AddColumns = (ColF :> "name") @@ (ColN :> "count"),
          !.EditColumns = (ColE :> "lower")] }

Obj(kind, p, k) == [kind |-> kind, of |-> p, idx |-> k]

SharedInit ==
    /\ conc \in { [op |-> "shared", opts |-> o, given |-> o,
                   reqs |-> [p \in Requests |-> [data |-> d[p], start |-> st[p], next |-> 1]],
                   outs |-> [p \in Requests |-> <<>>],
                   reads |-> {}, writes |-> {}, sched |-> <<>>] :
                  o \in SharedOptionsPool, d \in [Requests -> SharedDataPool],
                  st \in [Requests -> {0, 10}] }
    /\ vcall = NoCall
    /\ pcall = NoCall
    /\ ocall = NoCall
    /\ ccall = NoCall
    /\ bcall = NoCall
    /\ PipeInit

\* transformer.go 26-62: request p runs the loop body for its next row,
\* reading the options as they are in memory now
StepRequest(p) ==
    /\ conc.op = "shared"
    /\ conc.reqs[p].next <= Len(conc.reqs[p].data)
    /\ \E order \in [add : KeyOrders(conc.opts.AddColumns), edit : KeyOrders(conc.opts.EditColumns)] :
          LET k == conc.reqs[p].next
              r == applyOptionsRow(conc.reqs[p].data[k], conc.opts, conc.reqs[p].start, k - 1, order)
          IN conc' = [conc EXCEPT
                         !.reqs[p].next = k + 1,
                         !.outs[outOwner(p)] = Append(@, r.out),
                         !.reads = @ \cup { [by |-> p, obj |-> Obj("opts", 0, 0)],
                                            [by |-> p, obj |-> Obj("row", p, k)],
                                            [by |-> p, obj |-> Obj("newRow", p, k)],
                                            [by |-> p, obj |-> Obj("out", outOwner(p), 0)] },
                         !.writes = @ \cup { [by |-> p, obj |-> Obj("newRow", p, k)],
                                             [by |-> p, obj |-> Obj("out", outOwner(p), 0)] },
                         !.sched = Append(@, p)]
    /\ UNCHANGED <<vcall, pcall, ocall, ccall, bcall, pipeVars>>

SharedNext == \E p \in Requests : StepRequest(p)

SpecShared == SharedInit /\ [][SharedNext]_vars

\* what request p returns when it runs alone with the options as given
Alone(p) ==
    applyOptions([isNil |-> FALSE, list |-> conc.reqs[p].data], conc.given, conc.reqs[p].start,
                 CHOOSE o \in RangeOrders([isNil |-> FALSE, list |-> conc.reqs[p].data], conc.given) : TRUE).ret.list

Field(name, tag, exported) == [Name |-> name, json |-> tag, exported |-> exported]

OmitEmpty == <<",", "o", "m", "i", "t", "e", "m", "p", "t", "y">>

\* struct types: renamed and untagged fields, an excluded one, an unexported
\* one, and tags with options
StructTypes ==
    { << Field(<<"N">>, <<"n">>, TRUE), Field(<<"E">>, <<"e">> \o OmitEmpty, TRUE) >>,
      << Field(<<"N">>, <<"n">>, TRUE), Field(<<"T">>, <<>>, TRUE),
         Field(<<"P">>, <<"-">>, TRUE), Field(<<"s">>, <<"s">>, FALSE) >>,
      << Field(<<"N">>, <<"n">>, TRUE), Field(<<"A">>, OmitEmpty, TRUE) >> }

\* the values of one struct type tried as slice elements
StructsOf(t) ==
    { StructVal(t, [j \in 1..Len(t) |-> StrVal(<<"a">>)]),
      StructVal(t, [j \in 1..Len(t) |-> StrVal(<<DigitSeq[j + 1]>>)]) }

\* the elements of a slice of t, of pointers to t, or of maps
ElementPools(t) ==
    { StructsOf(t), { PtrTo(x) : x \in StructsOf(t) } \cup {NilPtr}, {MapVal} }

ConvertArgs ==
    {Invalid, Scalar, PtrTo(Scalar), NilPtr}
        \cup UNION { UNION { { SliceOf(items), PtrTo(SliceOf(items)) } :
                                items \in UNION { BoundedSeq(pool, MaxRows) : pool \in ElementPools(t) } } :
                     t \in StructTypes }

FieldArgs ==
    UNION { Range(t) : t \in StructTypes }
        \cup { Field(<<"F">>, <<"n", ",", "o", ",", "s">>, TRUE), Field(<<"F">>, <<"-", ",">>, TRUE) }

ConvertCalls ==
    { [op |-> "structToMapSlice", arg |-> a, done |-> FALSE,
       ret |-> [panic |-> FALSE, isNil |-> TRUE, list |-> <<>>]] : a \in ConvertArgs }
        \cup { [op |-> "getFieldName", arg |-> f, done |-> FALSE, ret |-> <<>>] : f \in FieldArgs }

StructToMapSliceCall ==
    /\ ccall.op = "structToMapSlice" /\ ~ccall.done
    /\ ccall' = [ccall EXCEPT !.done = TRUE, !.ret = structToMapSlice(ccall.arg)]
    /\ UNCHANGED <<vcall, pcall, ocall, conc, bcall, pipeVars>>

GetFieldNameCall ==
    /\ ccall.op = "getFieldName" /\ ~ccall.done
    /\ ccall' = [ccall EXCEPT !.done = TRUE, !.ret = getFieldName(ccall.arg)]
    /\ UNCHANGED <<vcall, pcall, ocall, conc, bcall, pipeVars>>

ConvertInit ==
    /\ ccall \in ConvertCalls
    /\ vcall = NoCall
    /\ pcall = NoCall
    /\ ocall = NoCall
    /\ conc = NoCall
    /\ bcall = NoCall
    /\ PipeInit

ConvertNext == StructToMapSliceCall \/ GetFieldNameCall

SpecConvert == ConvertInit /\ [][ConvertNext]_vars

ConvertDone == ccall.op = "structToMapSlice" /\ ccall.done

\* the slice the argument is or points to, if any
IsSliceArg(a) ==
    \/ a.kind = "slice"
    \/ a.kind = "ptr" /\ a.elem.kind = "slice"

ArgItems(a) == IF a.kind = "slice" THEN a.items ELSE a.elem.items

\* the struct an element is or points to
ItemStruct(x) == IF x.kind = "ptr" THEN x.elem ELSE x

\* the key the claim gives a field: its name when untagged, else the tag up
\* to its first comma
CommaFree(tag, n) == \A i \in 1..n : tag[i] # ","

KeyOf(f) ==
    IF f.json = <<>> THEN f.Name
    ELSE SubSeq(f.json, 1,
                CHOOSE n \in 0..Len(f.json) :
                    /\ CommaFree(f.json, n)
                    /\ (n = Len(f.json) \/ f.json[n + 1] = ","))

\* C23: structToMapSlice returns nil for an argument that is neither a
\* slice nor a pointer to one; for a slice of structs (or of pointers to
\* structs) it returns one record per element, in order, holding under its
\* key the value of every exported field whose tag is not "-", and no key
\* from an unexported or excluded field.
C23_RecordsFromFields ==
    ConvertDone =>
        IF ~IsSliceArg(ccall.arg)
        THEN ~ccall.ret.panic /\ ccall.ret.isNil
        ELSE (\A k \in 1..Len(ArgItems(ccall.arg)) : ItemStruct(ArgItems(ccall.arg)[k]).kind = "struct")
             => /\ ~ccall.ret.panic
                /\ ~ccall.ret.isNil
                /\ Len(ccall.ret.list) = Len(ArgItems(ccall.arg))
                /\ \A k \in 1..Len(ccall.ret.list) :
                      LET st == ItemStruct(ArgItems(ccall.arg)[k])
                          kept == { j \in 1..Len(st.fields) :
                                      st.fields[j].exported /\ st.fields[j].json # <<"-">> }
                      IN /\ \A j \in kept :
                               /\ KeyOf(st.fields[j]) \in DOMAIN ccall.ret.list[k]
                               /\ ccall.ret.list[k][KeyOf(st.fields[j])] = st.vals[j]
                         /\ DOMAIN ccall.ret.list[k] = { KeyOf(st.fields[j]) : j \in kept }

\* C24: getFieldName returns the declared name of an untagged field, the
\* empty string for the tag "-", and otherwise the tag up to its first comma.
C24_FieldNameFromTag ==
    (ccall.op = "getFieldName" /\ ccall.done) =>
        /\ ccall.arg.json = <<>> => ccall.ret = ccall.arg.Name
        /\ ccall.arg.json = <<"-">> => ccall.ret = <<>>
        /\ ccall.arg.json \notin {<<>>, <<"-">>} =>
              /\ Len(ccall.ret) <= Len(ccall.arg.json)
              /\ ccall.ret = SubSeq(ccall.arg.json, 1, Len(ccall.ret))
              /\ CommaFree(ccall.ret, Len(ccall.ret))
              /\ (Len(ccall.ret) = Len(ccall.arg.json) \/ ccall.arg.json[Len(ccall.ret) + 1] = ",")

\* the tag e,omitempty gave the key e
C24_Witness ==
    /\ ccall.op = "getFieldName"
    /\ ccall.done
    /\ ccall.arg.json = <<"e">> \o OmitEmpty
    /\ ccall.ret = <<"e">>

\* C25 (conversion part): converting the destination slice always
\* completes, whatever its element type: struct, pointer (nil or not), or
\* a type that is no struct.
C25_ConversionCompletes ==
    ConvertDone => ~ccall.ret.panic

(***************************************************************************)
(* Specification SpecBuild: Options values derived by builder calls.  An  *)
(* Options value holds its two maps by reference (an address into maps)    *)
(* and its remove list as a slice header over a backing array.             *)
(***************************************************************************)
MaxCalls == 3

\* a slice header: backing array, length, capacity
EmptySlice == [arr |-> 0, len |-> 0, cap |-> 0, isNil |-> FALSE]

SliceItems(arrays, sl) == IF sl.len = 0 THEN <<>> ELSE SubSeq(arrays[sl.arr], 1, sl.len)

\* the configuration an Options value denotes in the given memory
View(maps, arrays, o) ==
    [o EXCEPT !.AddColumns = maps[o.AddColumns],
              !.EditColumns = maps[o.EditColumns],
              !.RemoveColumns = SliceItems(arrays, o.RemoveColumns)]

\* append(s, cols...) keeping the elements given only
appendSlice_Replace(arrays, sl, cols, newcap) ==
    [arrays |-> Append(arrays, cols \o [i \in 1..(newcap - Len(cols)) |-> <<>>]),
     slice  |-> [arr |-> Len(arrays) + 1, len |-> Len(cols), cap |-> newcap,
                 isNil |-> FALSE]]

\* options.go 109: append(s, cols...): in place when the capacity
\* suffices, else into a new array of capacity newcap
appendSlice(arrays, sl, cols, newcap) ==
    IF sl.len + Len(cols) <= sl.cap
    THEN [arrays |-> [arrays EXCEPT ![sl.arr] =
                         [i \in 1..sl.cap |-> IF i > sl.len /\ i <= sl.len + Len(cols)
                                              THEN cols[i - sl.len] ELSE @[i]]],
          slice  |-> [sl EXCEPT !.len = sl.len + Len(cols)]]
    ELSE [arrays |-> Append(arrays, SliceItems(arrays, sl) \o cols
                                \o [i \in 1..(newcap - sl.len - Len(cols)) |-> <<>>]),
          slice  |-> [arr |-> Len(arrays) + 1, len |-> sl.len + Len(cols), cap |-> newcap,
                      isNil |-> FALSE]]

\* the call recorded and its result added to the values made so far
Derive(recv, fn, arg, maps, arrays, o) ==
    /\ bcall.op = "build"
    /\ Len(bcall.vals) <= MaxCalls
    /\ bcall' = [bcall EXCEPT
                    !.maps = maps, !.arrays = arrays,
                    !.vals = Append(@, o),
                    !.made = Append(@, View(maps, arrays, o)),
                    !.log = Append(@, [fn |-> fn, recv |-> recv, arg |-> arg])]
    /\ UNCHANGED <<vcall, pcall, ocall, conc, ccall, pipeVars>>

\* options.go 49-53
WithIndexCall ==
    \E recv \in 1..Len(bcall.vals), reset \in BOOLEAN :
        Derive(recv, "WithIndex", <<ColI, reset>>, bcall.maps, bcall.arrays,
               WithIndex(bcall.vals[recv], ColI, reset))

\* options.go 63-66
WithDefaultOrderCall ==
    \E recv \in 1..Len(bcall.vals), order \in {ColE, ColN} :
        Derive(recv, "WithDefaultOrder", <<order>>, bcall.maps, bcall.arrays,
               WithDefaultOrder(bcall.vals[recv], order))

\* options.go 79-82
AddCall ==
    \E recv \in 1..Len(bcall.vals),
       reg \in {<<ColF, "count">>, <<ColF, "name">>, <<ColN, "count">>} :
        Derive(recv, "Add", reg,
               [bcall.maps EXCEPT ![bcall.vals[recv].AddColumns] = (reg[1] :> reg[2]) @@ @],
               bcall.arrays, bcall.vals[recv])

\* options.go 95-98
EditCall ==
    \E recv \in 1..Len(bcall.vals), col \in {ColE}, fn \in {"lower", "next"} :
        Derive(recv, "Edit", <<col, fn>>,
               [bcall.maps EXCEPT ![bcall.vals[recv].EditColumns] = (col :> fn) @@ @],
               bcall.arrays, bcall.vals[recv])

\* options.go 108-111; the capacity of a new array is the runtime's choice
RemoveCall ==
    \E recv \in 1..Len(bcall.vals), cols \in {<<ColE>>, <<ColI, ColF>>} :
        \E newcap \in (bcall.vals[recv].RemoveColumns.len + Len(cols))
                          ..(bcall.vals[recv].RemoveColumns.len + Len(cols) + 1) :
            LET r == appendSlice(bcall.arrays, bcall.vals[recv].RemoveColumns, cols, newcap)
            IN /\ (bcall.vals[recv].RemoveColumns.len + Len(cols) <= bcall.vals[recv].RemoveColumns.cap
                     => newcap = bcall.vals[recv].RemoveColumns.len + Len(cols))
               /\ Derive(recv, "Remove", cols, bcall.maps, r.arrays,
                         [bcall.vals[recv] EXCEPT !.RemoveColumns = r.slice])

\* options.go 30-39: NewOptions() makes two maps and an empty slice
BuildInit ==
    /\ bcall = [op |-> "build", maps |-> << <<>>, <<>> >>, arrays |-> <<>>,
                vals |-> << [NewOptions EXCEPT !.AddColumns = 1, !.EditColumns = 2,
                                               !.RemoveColumns = EmptySlice] >>,
                made |-> << NewOptions >>, log |-> <<>>]
    /\ vcall = NoCall
    /\ pcall = NoCall
    /\ ocall = NoCall
    /\ conc = NoCall
    /\ ccall = NoCall
    /\ PipeInit

BuildNext == WithIndexCall \/ WithDefaultOrderCall \/ AddCall \/ EditCall \/ RemoveCall

SpecBuild == BuildInit /\ [][BuildNext]_vars

(***************************************************************************)
(* Specification Spec: one OfReturn call, step by step                     *)
(***************************************************************************)
SearchablePool ==
    { <<>>, <<ColN>>, <<ColN, ColE>>, <<ColN, <<"e", ";">>, <<"'">> >>, << <<"z">> >> }

KeyName == <<"n">>
KeyMail == <<"m">>

OrderablePool ==
    { <<>>,
      KeyName :> ColN,
      (KeyName :> ColN) @@ (KeyMail :> ColE),
      KeyName :> <<"n", ";">>,
      (<<"n", " ">> :> ColN) @@ (KeyMail :> <<"e", "'">>) }

OptionsPool ==
    { NewOptions, WithDefaultOrder(NewOptions, <<"e", " ", "D", "E", "S", "C">>) }

PipeRequests ==
    QueryStrings(
        { Absent, Present(<<"5">>) },
        { Absent, Present(<<"1">>), Present(<<"-", "5">>) },
        { Present(<<"-", "1">>), Present(<<"0">>), Present(<<"2">>),
          Present(<<"5", "0", "1">>), Present(<<"9", "9", "9", "9", "9", "9">>) },
        { Absent, Present(<<"a">>), Present(<<"_">>) },
        { Absent, Present(KeyName), Present(<<"x", ";">>) },
        { Absent, Present(<<"D", "E", "S", "C">>) },
        { <<>>, ColumnsDataKey(<<"0">>) :> KeyMail })

Init ==
    /\ vcall = NoCall
    /\ pcall = NoCall
    /\ ocall = NoCall
    /\ conc = NoCall
    /\ ccall = NoCall
    /\ bcall = NoCall
    /\ base = <<>>
    /\ pc = "validate"
    /\ searchable \in SearchablePool
    /\ orderable \in OrderablePool
    /\ opts \in OptionsPool
    /\ req \in PipeRequests
    /\ params = ZeroParams
    /\ total = 0
    /\ filtered = 0
    /\ fquery = <<>>
    /\ dbops = <<>>
    /\ steps = <<>>
    /\ dest = <<>>
    /\ rows = [isNil |-> TRUE, list |-> <<>>]
    /\ ret = NoReturn

\* return dto.Datatables{}, err
ReturnError(e) ==
    /\ ret' = [returned |-> TRUE, res |-> ZeroDatatables, err |-> e]
    /\ pc' = "done"

\* processor.go 47-52
Validate ==
    /\ pc = "validate"
    /\ steps' = Append(steps, "validate")
    /\ IF validateSearchableColumns(searchable) # Nil
       THEN ReturnError(validateSearchableColumns(searchable))
       ELSE \E e \in validateOrderableColumns(orderable) :
               IF e # Nil THEN ReturnError(e)
               ELSE pc' = "parse" /\ UNCHANGED ret
    /\ UNCHANGED <<vcall, pcall, ocall, conc, ccall, bcall, base, searchable, orderable, opts, req, params, total,
                   filtered, fquery, dbops, dest, rows>>

\* processor.go 55
Parse ==
    /\ pc = "parse"
    /\ steps' = Append(steps, "parse")
    /\ params' = ParseParams(req)
    /\ pc' = "count"
    /\ UNCHANGED <<vcall, pcall, ocall, conc, ccall, bcall, base, searchable, orderable, opts, req, total,
                   filtered, fquery, dbops, dest, rows, ret>>

\* processor.go 58-61: Count on a fresh session of the base query
CountTotal ==
    /\ pc = "count"
    /\ steps' = Append(steps, "count")
    /\ \E e \in DBOutcomes(base) :
          /\ dbops' = Append(dbops, [op |-> "Count", query |-> base, err |-> e])
          /\ IF e # Nil
             THEN ReturnError(e) /\ UNCHANGED total
             ELSE total' = CountRows(base) /\ pc' = "search" /\ UNCHANGED ret
    /\ UNCHANGED <<vcall, pcall, ocall, conc, ccall, bcall, base, searchable, orderable, opts, req, params,
                   filtered, fquery, dest, rows>>

\* processor.go 64-67
Search ==
    /\ pc = "search"
    /\ steps' = Append(steps, "search")
    /\ fquery' = IF params.Search # <<>> /\ Len(searchable) > 0
                 THEN applySearch(base, searchable, params.Search)
                 ELSE base
    /\ pc' = "countFiltered"
    /\ UNCHANGED <<vcall, pcall, ocall, conc, ccall, bcall, base, searchable, orderable, opts, req, params, total,
                   filtered, dbops, dest, rows, ret>>

\* processor.go 70-73
CountFiltered ==
    /\ pc = "countFiltered"
    /\ steps' = Append(steps, "countFiltered")
    /\ \E e \in DBOutcomes(fquery) :
          /\ dbops' = Append(dbops, [op |-> "Count", query |-> fquery, err |-> e])
          /\ IF e # Nil
             THEN ReturnError(e) /\ UNCHANGED filtered
             ELSE filtered' = CountRows(fquery) /\ pc' = "order" /\ UNCHANGED ret
    /\ UNCHANGED <<vcall, pcall, ocall, conc, ccall, bcall, base, searchable, orderable, opts, req, params, total,
                   fquery, dest, rows>>

\* processor.go 76
Order ==
    /\ pc = "order"
    /\ steps' = Append(steps, "order")
    /\ fquery' = applyOrdering(fquery, params, orderable, opts.DefaultOrder)
    /\ pc' = "paginate"
    /\ UNCHANGED <<vcall, pcall, ocall, conc, ccall, bcall, base, searchable, orderable, opts, req, params, total,
                   filtered, dbops, dest, rows, ret>>

\* processor.go 79-81
Paginate ==
    /\ pc = "paginate"
    /\ steps' = Append(steps, "paginate")
    /\ fquery' = applyPagination(fquery, params)
    /\ pc' = "fetch"
    /\ UNCHANGED <<vcall, pcall, ocall, conc, ccall, bcall, base, searchable, orderable, opts, req, params, total,
                   filtered, dbops, dest, rows, ret>>

\* the fetch whose failure is not returned
Fetch_Swallow ==
    /\ pc = "fetch"
    /\ steps' = Append(steps, "fetch")
    /\ \E e \in DBOutcomes(fquery) :
          /\ dbops' = Append(dbops, [op |-> "Find", query |-> fquery, err |-> e])
          /\ IF e # Nil
             THEN dest' = <<>>
             ELSE \E found \in FindRows(fquery) :
                     dest' = [k \in 1..Len(found) |-> UserOf(found[k])]
          /\ pc' = "convert" /\ UNCHANGED ret
    /\ UNCHANGED <<vcall, pcall, ocall, conc, ccall, bcall, base, searchable, orderable, opts, req, params, total,
                   filtered, fquery, rows>>

\* the fetch tried again after a failure
Fetch_Retry ==
    /\ pc = "fetch"
    /\ steps' = Append(steps, "fetch")
    /\ \E e \in DBOutcomes(fquery) :
          /\ dbops' = Append(dbops, [op |-> "Find", query |-> fquery, err |-> e])
          /\ IF e # Nil
             THEN pc' = "fetch" /\ UNCHANGED <<dest, ret>>
             ELSE /\ \E found \in FindRows(fquery) :
                        dest' = [k \in 1..Len(found) |-> UserOf(found[k])]
                  /\ pc' = "convert" /\ UNCHANGED ret
    /\ UNCHANGED <<vcall, pcall, ocall, conc, ccall, bcall, base, searchable, orderable, opts, req, params, total,
                   filtered, fquery, rows>>

\* processor.go 84-86
Fetch ==
    /\ pc = "fetch"
    /\ steps' = Append(steps, "fetch")
    /\ \E e \in DBOutcomes(fquery) :
          /\ dbops' = Append(dbops, [op |-> "Find", query |-> fquery, err |-> e])
          /\ IF e # Nil
             THEN ReturnError(e) /\ UNCHANGED dest
             ELSE /\ \E found \in FindRows(fquery) :
                        dest' = [k \in 1..Len(found) |-> UserOf(found[k])]
                  /\ pc' = "convert" /\ UNCHANGED ret
    /\ UNCHANGED <<vcall, pcall, ocall, conc, ccall, bcall, base, searchable, orderable, opts, req, params, total,
                   filtered, fquery, rows>>

\* processor.go 89
Convert ==
    /\ pc = "convert"
    /\ steps' = Append(steps, "convert")
    /\ LET r == structToMapSlice(PtrTo(SliceOf([k \in 1..Len(dest) |->
                                                    StructVal(UserFields, dest[k])])))
       IN IF r.panic
          THEN pc' = "panic" /\ UNCHANGED rows
          ELSE pc' = "transform" /\ rows' = [isNil |-> r.isNil, list |-> r.list]
    /\ UNCHANGED <<vcall, pcall, ocall, conc, ccall, bcall, base, searchable, orderable, opts, req, params, total,
                   filtered, fquery, dbops, dest, ret>>

\* the transform step reporting the size of the page as the filtered count
Transform_PageCount ==
    /\ pc = "transform"
    /\ steps' = Append(steps, "transform")
    /\ \E orders \in RangeOrders(rows, opts) :
          rows' = applyOptions(rows, opts, params.Start, orders).ret
    /\ ret' = [returned |-> TRUE,
               res |-> [Draw |-> params.Draw, RecordsTotal |-> total,
                        RecordsFiltered |-> Len(rows'.list), Data |-> rows'],
               err |-> Nil]
    /\ pc' = "done"
    /\ UNCHANGED <<vcall, pcall, ocall, conc, ccall, bcall, base, searchable, orderable, opts, req, params, total,
                   filtered, fquery, dbops, dest>>

\* processor.go 92-99
Transform ==
    /\ pc = "transform"
    /\ steps' = Append(steps, "transform")
    /\ \E orders \in RangeOrders(rows, opts) :
          rows' = applyOptions(rows, opts, params.Start, orders).ret
    /\ ret' = [returned |-> TRUE,
               res |-> [Draw |-> params.Draw, RecordsTotal |-> total,
                        RecordsFiltered |-> filtered, Data |-> rows'],
               err |-> Nil]
    /\ pc' = "done"
    /\ UNCHANGED <<vcall, pcall, ocall, conc, ccall, bcall, base, searchable, orderable, opts, req, params, total,
                   filtered, fquery, dbops, dest>>

Next ==
    \/ Validate \/ Parse \/ CountTotal \/ Search \/ CountFiltered
    \/ Order \/ Paginate \/ Fetch \/ Convert \/ Transform

Spec == Init /\ [][Next]_vars

(***************************************************************************)
(* Specification SpecBase: OfReturn on a base query that carries a         *)
(* condition of its own.                                                   *)
(***************************************************************************)
BasePool ==
    { <<BaseCond(ColE, <<"x">>)>>, <<BaseCond(ColE, <<"A">>)>>, <<BaseCond(ColN, <<"c">>)>> }

BaseSearchable == { <<ColN>>, <<ColN, ColE>>, <<ColE, ColN>> }

BaseRequests ==
    QueryStrings(
        { Absent },
        { Absent, Present(<<"1">>) },
        { Present(<<"-", "1">>), Present(<<"2">>) },
        { Absent, Present(<<"a">>), Present(<<"x">>), Present(<<"b">>) },
        { Absent },
        { Absent },
        { <<>> })

BaseInit ==
    /\ vcall = NoCall
    /\ pcall = NoCall
    /\ ocall = NoCall
    /\ conc = NoCall
    /\ ccall = NoCall
    /\ bcall = NoCall
    /\ base \in BasePool
    /\ pc = "validate"
    /\ searchable \in BaseSearchable
    /\ orderable = <<>>
    /\ opts = NewOptions
    /\ req \in BaseRequests
    /\ params = ZeroParams
    /\ total = 0
    /\ filtered = 0
    /\ fquery = <<>>
    /\ dbops = <<>>
    /\ steps = <<>>
    /\ dest = <<>>
    /\ rows = [isNil |-> TRUE, list |-> <<>>]
    /\ ret = NoReturn

SpecBase == BaseInit /\ [][Next]_vars

(***************************************************************************)
(* Properties of the pipeline                                              *)
(***************************************************************************)
\* every query the builder has been handed: the one being built and the
\* ones already executed
AllQueries == {fquery} \cup { dbops[k].query : k \in 1..Len(dbops) }

AllClauses == UNION { Range(q) : q \in AllQueries }

SafeIdentifier(id) ==
    /\ id # <<>>
    /\ \A i \in 1..Len(id) :
          id[i] \in Range(LowerSeq) \cup Range(UpperSeq) \cup Range(DigitSeq) \cup {"_", "."}

\* C1: the text of every Where/Or is the fixed LOWER(..) LIKE LOWER(?)
\* template around a searchable column that is a safe identifier, with the
\* search text only in the bound argument; the text of every Order is either
\* the configured default order or a safe value of orderable, a blank and
\* asc or desc.  The request's search text and order key are never part of
\* any query text.
C1_QueryTextFromWhitelist ==
    \A cl \in AllClauses :
        /\ cl.op \in {"Where", "Or"} =>
              /\ \E col \in Range(searchable) :
                    /\ SafeIdentifier(col)
                    /\ cl.text = <<"LOWER(">> \o col \o <<") LIKE LOWER(?)">>
              /\ cl.args = << <<"%">> \o params.Search \o <<"%">> >>
        /\ cl.op = "Order" =>
              \/ cl.text = opts.DefaultOrder
              \/ \E col \in Range(orderable) :
                    \E d \in { <<"a", "s", "c">>, <<"d", "e", "s", "c">> } :
                       /\ SafeIdentifier(col)
                       /\ cl.text = col \o <<" ">> \o d

\* a request whose order key carries a statement separator, on a valid
\* configuration, has been fetched: the key is in no query text
C1_Witness ==
    /\ Len(dbops) = 3
    /\ dbops[3].op = "Find"
    /\ params.Order = <<"x", ";">>
    /\ params.Search = <<"_">>
    /\ \E cl \in Range(dbops[3].query) : cl.op = "Where"
    /\ \E cl \in Range(dbops[3].query) : cl.op = "Order"

ConfigInvalid ==
    \/ \E i \in 1..Len(searchable) : ~isValidColumnName(searchable[i])
    \/ \E k \in DOMAIN orderable : ~isValidColumnName(k) \/ ~isValidColumnName(orderable[k])

InvalidNames ==
    { searchable[i] : i \in { j \in 1..Len(searchable) : ~isValidColumnName(searchable[j]) } }
    \cup { k \in DOMAIN orderable : ~isValidColumnName(k) }
    \cup { orderable[k] : k \in { x \in DOMAIN orderable : ~isValidColumnName(orderable[x]) } }

StepOfOp == [k \in 1..3 |-> <<"count", "countFiltered", "fetch">>[k]]

PipelineOrder ==
    <<"validate", "parse", "count", "search", "countFiltered", "order",
      "paginate", "fetch", "convert", "transform">>

IsPrefix(x, y) == Len(x) <= Len(y) /\ x = SubSeq(y, 1, Len(x))

\* C5: the steps performed so far are always an initial part of validate,
\* (parse,) count, (search,) count filtered, order, paginate, fetch, convert,
\* transform; the database operations issued are an initial part of Count,
\* Count, Find; convert and transform follow a successful Find only.
C5_StepsInOrder ==
    /\ IsPrefix(steps, PipelineOrder)
    /\ IsPrefix([k \in 1..Len(dbops) |-> dbops[k].op], <<"Count", "Count", "Find">>)
    /\ (\E k \in 1..Len(steps) : steps[k] \in {"convert", "transform"}) =>
          /\ Len(dbops) = 3
          /\ dbops[3].op = "Find"
          /\ dbops[3].err = Nil

\* a call that ran to its end
C5_Witness ==
    /\ pc = "done"
    /\ steps = PipelineOrder
    /\ Len(dbops) = 3
    /\ ret.err = Nil

ContainsCI(str, sub) ==
    \E i \in 1..(Len(str) + 1) :
        /\ i + Len(sub) - 1 <= Len(str)
        /\ SubSeq(ToLower(str), i, i + Len(sub) - 1) = ToLower(sub)

SearchConds == Clauses(fquery, {"Where", "Or"})

\* C6: with a non-empty search value and searchable list the filter is one
\* OR-joined predicate per searchable column, all with the same bound value,
\* and a column's predicate holds for a row exactly when the column's value
\* contains the search value as a case-insensitive substring, wildcard
\* characters included; otherwise there is no predicate.
C6_SearchIsSubstringMatch ==
    (\E k \in 1..Len(steps) : steps[k] = "search") =>
        IF params.Search # <<>> /\ searchable # <<>>
        THEN /\ Len(SearchConds) = Len(searchable)
             /\ \A k \in 1..Len(SearchConds) :
                   /\ SearchConds[k].op = IF k = 1 THEN "Where" ELSE "Or"
                   /\ SearchConds[k].args = SearchConds[1].args
                   /\ ClauseColumn(SearchConds[k]) = searchable[k]
                   /\ searchable[k] \in TableColumns =>
                         \A r \in 1..Len(Table) :
                            EvalClause(SearchConds[k], Table[r])
                               <=> ContainsCI(Table[r][searchable[k]], params.Search)
        ELSE SearchConds = <<>>

OrderClauses == Clauses(fquery, {"Order"})

Paginated == \E k \in 1..Len(steps) : steps[k] = "paginate"

WindowClauses == Clauses(fquery, {"Offset", "Limit"})

\* C8: offset and limit are skipped exactly when the page length is -1; for
\* every other length the query gets offset = start and limit = length.
C8_SkipOnlyForSentinel ==
    Paginated =>
        IF params.Length = -1
        THEN WindowClauses = <<>>
        ELSE WindowClauses = <<[op |-> "Offset", n |-> params.Start],
                               [op |-> "Limit", n |-> params.Length]>>

RequestedLength == Atoi(DefaultQuery(req, Key("length"), <<"1", "0">>))

Parsed == \E k \in 1..Len(steps) : steps[k] = "parse"

\* C9: a requested length above 500 is parsed as 500 and fetched with limit
\* 500 and offset = start; a requested length of at most 500 (-1 included)
\* is parsed unchanged; no query ever carries a limit above 500.
C9_PageSizeCapped ==
    /\ Parsed =>
          /\ RequestedLength > 500 => params.Length = 500
          /\ RequestedLength <= 500 => params.Length = RequestedLength
    /\ (Paginated /\ RequestedLength > 500) =>
          WindowClauses = <<[op |-> "Offset", n |-> params.Start],
                            [op |-> "Limit", n |-> 500]>>
    /\ \A k \in 1..Len(dbops) :
          (dbops[k].op = "Find" /\ RequestedLength > 500) =>
              Clauses(dbops[k].query, {"Offset", "Limit"}) =
                  <<[op |-> "Offset", n |-> params.Start], [op |-> "Limit", n |-> 500]>>
    /\ \A cl \in AllClauses : cl.op = "Limit" => cl.n <= 500

\* a request for 501 rows from offset 1 was fetched with limit 500
C9_Witness ==
    /\ req[Key("length")] = <<"5", "0", "1">>
    /\ Len(dbops) = 3
    /\ dbops[3].op = "Find"
    /\ dbops[3].err = Nil
    /\ [op |-> "Limit", n |-> 500] \in Range(dbops[3].query)
    /\ [op |-> "Offset", n |-> 1] \in Range(dbops[3].query)

Succeeded == ret.returned /\ ret.err = Nil

\* the row satisfies the search of the request: no search value, no
\* searchable column, or some searchable column contains the value
MatchesSearch(row) ==
    LET value == DefaultQuery(req, Key("search[value]"), <<>>)
    IN \/ value = <<>>
       \/ searchable = <<>>
       \/ \E j \in 1..Len(searchable) :
             Like(ToLower(row[searchable[j]]), ToLower(<<"%">> \o value \o <<"%">>))

\* C15: on success draw is the draw parsed from the request, recordsTotal
\* is the row count of the base query without any search condition, and
\* recordsFiltered is the row count of the search-filtered query, counted
\* before ordering and pagination; neither count depends on start, length
\* or the order.
C15_EnvelopeCounts ==
    Succeeded =>
        /\ ret.res.Draw = ParseInt(DefaultQuery(req, Key("draw"), <<"1">>)).val
        /\ ret.res.RecordsTotal = Len(Table)
        /\ ret.res.RecordsFiltered =
              Cardinality({ k \in 1..Len(Table) : MatchesSearch(Table[k]) })
        /\ dbops[1].op = "Count" /\ dbops[1].query = <<>>
        /\ dbops[2].op = "Count"
        /\ Clauses(dbops[2].query, {"Order", "Offset", "Limit"}) = <<>>

\* a page of one row out of two that match the search, of three in all
C15_Witness ==
    /\ Succeeded
    /\ ret.res.RecordsTotal = 3
    /\ ret.res.RecordsFiltered = 2
    /\ params.Start = 1
    /\ Len(ret.res.Data.list) = 1

(***************************************************************************)
(* The implementation before the refactoring (part_004)                    *)
(***************************************************************************)
CreatedAtDesc == <<"c", "r", "e", "a", "t", "e", "d", "_", "a", "t", " ", "D", "E", "S", "C">>

\* part_004 163-170
legacyOrdering(query, p, ordmap) ==
    IF p.Order # <<>>
    THEN IF p.Order \in DOMAIN ordmap
         THEN Append(query, [op |-> "Order", text |-> ordmap[p.Order] \o <<" ">> \o p.Dir])
         ELSE query
    ELSE Append(query, [op |-> "Order", text |-> CreatedAtDesc])

\* part_004 145-175: the query the legacy OfReturn hands to Find
legacyFindQuery(query, cols, p, ordmap) ==
    LET searched == IF p.Search # <<>> /\ Len(cols) > 0
                    THEN applySearch(query, cols, p.Search)
                    ELSE query
        ordered  == legacyOrdering(searched, p, ordmap)
    IN IF p.Length > 0
       THEN ordered \o <<[op |-> "Offset", n |-> p.Start], [op |-> "Limit", n |-> p.Length]>>
       ELSE ordered

\* C26: with NewOptions() and valid column names OfReturn issues the query
\* operations of the implementation before the refactoring: the same two
\* counts and the same Find with the same search conditions, ordering,
\* offset and limit.
C26_SameQueriesAsLegacy ==
    (opts = NewOptions /\ ~ConfigInvalid) =>
        \A k \in 1..Len(dbops) :
            /\ k = 1 => dbops[k].op = "Count" /\ dbops[k].query = base
            /\ dbops[k].op = "Find" =>
                  dbops[k].query = legacyFindQuery(base, searchable, params, orderable)

(***************************************************************************)
(* Builder claims (specification SpecBuild)                                *)
(***************************************************************************)
Built == bcall.op = "build"

\* every call was made on the result of the call before it
Chain == \A k \in 1..Len(bcall.log) : bcall.log[k].recv = k

CallsOf(fn) == {k \in 1..Len(bcall.log) : bcall.log[k].fn = fn}

Latest(S) == CHOOSE k \in S : \A j \in S : j <= k

RegisteredBy(fn, col) == {k \in CallsOf(fn) : bcall.log[k].arg[1] = col}

RECURSIVE RemovedNames(_)
RemovedNames(k) ==
    IF k = 0 THEN <<>>
    ELSE RemovedNames(k - 1)
             \o (IF bcall.log[k].fn = "Remove" THEN bcall.log[k].arg ELSE <<>>)

FinalValue == View(bcall.maps, bcall.arrays, bcall.vals[Len(bcall.vals)])

\* C27: NewOptions() has index column "DT_RowIndex", reset false, empty
\* default order and empty non-nil collections; after a chain of builder
\* calls the final value holds the last index settings and default order,
\* the last registration per add and edit column, and all removed names in
\* call order.
C27_ChainAccumulates ==
    (Built /\ Chain) =>
        /\ FinalValue.IndexColumn =
               IF CallsOf("WithIndex") = {} THEN DTRowIndex
               ELSE bcall.log[Latest(CallsOf("WithIndex"))].arg[1]
        /\ FinalValue.ResetIndex =
               IF CallsOf("WithIndex") = {} THEN FALSE
               ELSE bcall.log[Latest(CallsOf("WithIndex"))].arg[2]
        /\ FinalValue.DefaultOrder =
               IF CallsOf("WithDefaultOrder") = {} THEN <<>>
               ELSE bcall.log[Latest(CallsOf("WithDefaultOrder"))].arg[1]
        /\ DOMAIN FinalValue.AddColumns = {bcall.log[k].arg[1] : k \in CallsOf("Add")}
        /\ \A c \in DOMAIN FinalValue.AddColumns :
               FinalValue.AddColumns[c] = bcall.log[Latest(RegisteredBy("Add", c))].arg[2]
        /\ DOMAIN FinalValue.EditColumns = {bcall.log[k].arg[1] : k \in CallsOf("Edit")}
        /\ \A c \in DOMAIN FinalValue.EditColumns :
               FinalValue.EditColumns[c] = bcall.log[Latest(RegisteredBy("Edit", c))].arg[2]
        /\ FinalValue.RemoveColumns = RemovedNames(Len(bcall.log))
        /\ bcall.vals[Len(bcall.vals)].AddColumns # 0
        /\ bcall.vals[Len(bcall.vals)].EditColumns # 0
        /\ ~bcall.vals[Len(bcall.vals)].RemoveColumns.isNil

\* a chain that registers one column twice and removes names twice
C27_Witness ==
    /\ Built
    /\ Chain
    /\ Len(bcall.log) = 3
    /\ bcall.log[1].fn = "Add"
    /\ bcall.log[2].fn = "Add"
    /\ bcall.log[3].fn = "Remove"
    /\ bcall.log[1].arg[1] = bcall.log[2].arg[1]
    /\ bcall.log[1].arg[2] = "count"
    /\ FinalValue.AddColumns[bcall.log[1].arg[1]] = "name"

C27_WitnessRemove ==
    /\ Built
    /\ Chain
    /\ Cardinality(CallsOf("Remove")) = 2
    /\ Len(FinalValue.RemoveColumns) >= 3

\* C30: Add, Edit and Remove leave the receiver's configuration unchanged:
\* every value made keeps the add map, edit map and remove list it had when
\* it was made, whatever is later called on it or on a value derived from
\* the same parent.
C30_ValueSemantics ==
    Built =>
        \A k \in 1..Len(bcall.vals) :
            LET now == View(bcall.maps, bcall.arrays, bcall.vals[k])
            IN /\ now.AddColumns = bcall.made[k].AddColumns
               /\ now.EditColumns = bcall.made[k].EditColumns
               /\ now.RemoveColumns = bcall.made[k].RemoveColumns

(***************************************************************************)
(* Index numbering across pages (specification Spec)                       *)
(***************************************************************************)
\* the query of the Find of a successful call
FindQuery == dbops[Len(dbops)].query

\* the answers the database may give to the Find without OFFSET and LIMIT
FullResults == Orderings(FindQuery, Filter(FindQuery, Table))

\* C28: with reset disabled, the index value of every returned row is the
\* row's 1-based position in the full filtered, ordered result set, for
\* every start and length including the unbounded sentinel.
C28_IndexIsPosition ==
    (Succeeded /\ ~opts.ResetIndex) =>
        \E full \in FullResults :
            \A k \in 1..Len(ret.res.Data.list) :
                LET row == ret.res.Data.list[k]
                    idx == row[opts.IndexColumn]
                IN /\ idx.t = "int"
                   /\ idx.v \in 1..Len(full)
                   /\ \A c \in TableColumns : row[c] = StrVal(full[idx.v][c])

(***************************************************************************)
(* Search against a base query with conditions (specification SpecBase)    *)
(***************************************************************************)
\* the rows the caller's base query selects
BaseRows == Filter(base, Table)

\* C29: the search only narrows the base query: the rows counted and
\* fetched through the filtered query are rows of the base query, also when
\* the base query has its own WHERE conditions and several searchable
\* columns are OR-joined, so recordsFiltered <= recordsTotal.
C29_SearchOnlyNarrows ==
    Succeeded =>
        /\ ret.res.RecordsFiltered <= ret.res.RecordsTotal
        /\ \A k \in 1..Len(ret.res.Data.list) :
              \E r \in 1..Len(BaseRows) :
                  \A c \in TableColumns : ret.res.Data.list[k][c] = StrVal(BaseRows[r][c])

====
